---------------------------- MODULE Spec2Model ----------------------------
(***************************************************************************)
(* Burnout scoring engine (burnout_engine.py) and the calls the Flask       *)
(* application (app.py) makes to it.                                        *)
(*                                                                         *)
(* Numbers.  Python floats are modelled as exact rationals <<n, d>> in      *)
(* lowest terms with d > 0: 33.3 is <<333, 10>>, 0.15 is <<3, 20>>.         *)
(* round(x, k) is round-half-to-even on the exact value.  The float the     *)
(* code rounds differs from the exact value by its representation error,   *)
(* far less than the distance between two values of this model, so the     *)
(* two roundings differ only where the exact value lies exactly halfway    *)
(* between two candidates (13.05 to one decimal): there the float's error   *)
(* decides, and the code may return the other neighbour.                   *)
(* Records.  A Python dict with fixed keys is a TLA+ record; a dict used    *)
(* as a map (answers, response_times) is a function whose DOMAIN is the     *)
(* set of keys present.  A list is a sequence.                              *)
(***************************************************************************)
EXTENDS Integers, Sequences, FiniteSets, TLC

VARIABLES
    DATA,             \* app.DATA: the in-memory store
    requests,         \* the requests the server's threads are handling, by thread
    session,          \* the Flask session of the browser
    now,              \* datetime.now(), in minutes
    employee,         \* the employee record handed to generate_alerts
    assessments,      \* the caller's assessment list for that employee
    work_logs,        \* the caller's work-log list
    messages,         \* the caller's message list
    WEIGHTS,          \* burnout_engine.WEIGHTS (module-level dict)
    RISK_THRESHOLDS,  \* burnout_engine.RISK_THRESHOLDS (module-level dict)
    pc,               \* which engine call completed last
    result,           \* what compute_burnout_score returned (or raised)
    alerts,           \* what generate_alerts returned
    prev,             \* <<>> or <<c>>, c an earlier scoring call: arguments and result
    arg,              \* argument of the last direct call of a helper function
    ret,              \* its return value
    raised            \* the request's last engine call ended in an exception

\* the application's own state
app == <<DATA, requests, session, now>>

vars == <<DATA, requests, session, now, employee, assessments, work_logs, messages, WEIGHTS,
          RISK_THRESHOLDS, pc, result, alerts, prev, arg, ret, raised>>

(***************************************************************************)
(* Exact rational arithmetic                                               *)
(***************************************************************************)
RECURSIVE GCD(_, _)
GCD(a, b) == IF b = 0 THEN a ELSE GCD(b, a % b)

Abs(n) == IF n < 0 THEN -n ELSE n

\* the rational n/d (d # 0) in lowest terms with a positive denominator
Q(n, d) ==
    LET g == GCD(Abs(n), Abs(d))
        s == IF d < 0 THEN -1 ELSE 1
    IN  <<(s * n) \div g, (s * d) \div g>>

I(n) == <<n, 1>>

QAdd(a, b) == Q(a[1] * b[2] + b[1] * a[2], a[2] * b[2])
QSub(a, b) == Q(a[1] * b[2] - b[1] * a[2], a[2] * b[2])
QMul(a, b) == Q(a[1] * b[1], a[2] * b[2])
QDiv(a, b) == Q(a[1] * b[2], a[2] * b[1])
QLt(a, b) == a[1] * b[2] < b[1] * a[2]
QLe(a, b) == a[1] * b[2] <= b[1] * a[2]
QMax(a, b) == IF QLt(a, b) THEN b ELSE a
QMin(a, b) == IF QLt(b, a) THEN b ELSE a
QAbs(a) == <<Abs(a[1]), a[2]>>

RECURSIVE QSum(_)
QSum(s) == IF s = <<>> THEN I(0) ELSE QAdd(Head(s), QSum(Tail(s)))

RECURSIVE Pow10(_)
Pow10(k) == IF k = 0 THEN 1 ELSE 10 * Pow10(k - 1)

\* n/d (d > 0) rounded to the nearest integer, ties to the even one
RoundHalfEven(n, d) ==
    LET q == n \div d
        r == n % d
    IN  IF 2 * r < d THEN q
        ELSE IF 2 * r > d THEN q + 1
        ELSE IF q % 2 = 0 THEN q ELSE q + 1

\* Python's round(x, k)
Round(x, k) == Q(RoundHalfEven(x[1] * Pow10(k), x[2]), Pow10(k))

\* min(100, max(0, x))
Clamp100_unclamped(x) == x

Clamp100(x) == QMin(I(100), QMax(I(0), x))

\* s[-4:] if len(s) >= 4 else s
Last4(s) == IF Len(s) >= 4 THEN SubSeq(s, Len(s) - 3, Len(s)) ELSE s

\* sum(l[f] for l in logs) / len(logs), len(logs) > 0
Mean(logs, f) == QDiv(QSum([i \in 1..Len(logs) |-> logs[i][f]]), I(Len(logs)))

(***************************************************************************)
(* Module constants of burnout_engine.py                                   *)
(***************************************************************************)
WEIGHTS_init ==
    [assessment |-> Q(75, 100), sentiment |-> Q(10, 100),
     work_pattern |-> Q(10, 100), productivity |-> Q(5, 100)]

RISK_THRESHOLDS_init ==
    [low |-> I(35), moderate |-> I(55), high |-> I(75), critical |-> I(90)]

\* mock_data.ASSESSMENT_QUESTIONS: the fixed question catalog.  burnout_engine
\* reads only id and category of each question.
ASSESSMENT_QUESTIONS ==
    << [id |-> "q1", category |-> "exhaustion"],
       [id |-> "q2", category |-> "detachment"],
       [id |-> "q3", category |-> "physical"],
       [id |-> "q4", category |-> "personal_accomplishment"],
       [id |-> "q5", category |-> "support"] >>

QIds == {ASSESSMENT_QUESTIONS[i].id : i \in 1..Len(ASSESSMENT_QUESTIONS)}

PositiveCategories == {"personal_accomplishment", "support"}

(***************************************************************************)
(* Assessment score                                                        *)
(***************************************************************************)
question_term_not_reversed(q, answers) ==
    IF q.id \in DOMAIN answers
    THEN IF q.category \in PositiveCategories
         THEN <<answers[q.id] * 1, 1>>
         ELSE <<answers[q.id] * 3, 3>>
    ELSE <<0, 0>>

\* the question's own [score * weight, weight], <<0, 0>> if it is unanswered
question_term(q, answers) ==
    IF q.id \in DOMAIN answers
    THEN IF q.category \in PositiveCategories
         THEN <<(6 - answers[q.id]) * 1, 1>>
         ELSE <<answers[q.id] * 3, 3>>
    ELSE <<0, 0>>

RECURSIVE SumTerms(_, _, _)
SumTerms(qs, answers, k) ==
    IF qs = <<>> THEN 0
    ELSE question_term(Head(qs), answers)[k] + SumTerms(Tail(qs), answers, k)

compute_assessment_score(answers) ==
    IF DOMAIN answers = {} THEN I(0)
    ELSE LET weighted_total == SumTerms(ASSESSMENT_QUESTIONS, answers, 1)
             total_weight == SumTerms(ASSESSMENT_QUESTIONS, answers, 2)
         IN  IF total_weight = 0 THEN I(0)
             ELSE LET raw == Q(weighted_total, total_weight)
                      normalized == QMul(QDiv(QSub(raw, I(1)), I(4)), I(100))
                  IN  Round(normalized, 1)

(***************************************************************************)
(* Risk level                                                              *)
(***************************************************************************)
_get_risk_level_high_band_short(score) ==
    IF QLe(RISK_THRESHOLDS["critical"], score) THEN "critical"
    ELSE IF QLe(RISK_THRESHOLDS["high"], score) /\ QLt(score, I(85)) THEN "high"
    ELSE IF QLe(RISK_THRESHOLDS["moderate"], score) THEN "moderate"
    ELSE "low"

_get_risk_level(score) ==
    IF QLe(RISK_THRESHOLDS["critical"], score) THEN "critical"
    ELSE IF QLe(RISK_THRESHOLDS["high"], score) THEN "high"
    ELSE IF QLe(RISK_THRESHOLDS["moderate"], score) THEN "moderate"
    ELSE "low"

(***************************************************************************)
(* Sentiment analysis                                                      *)
(***************************************************************************)
\* TextBlob(text).sentiment of the message texts used here: the library's
\* lexicon scores, [polarity, subjectivity]
TextBlob(text) ==
    CASE text = "great"    -> [polarity |-> Q(8, 10),  subjectivity |-> Q(75, 100)]
      [] text = "terrible" -> [polarity |-> Q(-1, 1),  subjectivity |-> Q(1, 1)]
      [] text = "fine"     -> [polarity |-> Q(4167, 10000), subjectivity |-> Q(1, 2)]
      [] text = "tired"    -> [polarity |-> Q(-4, 10), subjectivity |-> Q(7, 10)]
      [] text = "hate"     -> [polarity |-> Q(-8, 10), subjectivity |-> Q(9, 10)]
      [] OTHER             -> [polarity |-> I(0),      subjectivity |-> I(0)]

analyze_sentiment(text) ==
    [polarity |-> Round(TextBlob(text).polarity, 3),
     subjectivity |-> Round(TextBlob(text).subjectivity, 3)]

_polarity_label(polarity) ==
    IF QLt(Q(1, 10), polarity) THEN "positive"
    ELSE IF QLt(polarity, Q(-1, 10)) THEN "negative"
    ELSE "neutral"

\* the per-message record analyze_messages builds: {**msg, polarity, ...}
analyzed_message(msg) ==
    LET sentiment == analyze_sentiment(msg.content)
    IN  [content |-> msg.content, timestamp |-> msg.timestamp,
         polarity |-> sentiment.polarity, subjectivity |-> sentiment.subjectivity,
         label |-> _polarity_label(sentiment.polarity)]

\* list.sort(key=timestamp): stable, ascending
RECURSIVE InsertByTimestamp(_, _)
InsertByTimestamp(sorted, x) ==
    IF sorted = <<>> THEN <<x>>
    ELSE IF x.timestamp < Head(sorted).timestamp THEN <<x>> \o sorted
    ELSE <<Head(sorted)>> \o InsertByTimestamp(Tail(sorted), x)

RECURSIVE SortByTimestamp(_)
SortByTimestamp(s) ==
    IF s = <<>> THEN <<>>
    ELSE InsertByTimestamp(SortByTimestamp(SubSeq(s, 1, Len(s) - 1)), s[Len(s)])

\* a timestamp is the day it falls on, counted from the first Sunday of the
\* year; strftime("%Y-W%U") is then the week that day is in
week_key(timestamp) == timestamp \div 7

\* the polarities of the messages of week w, in list order
week_polarities(msgs, w) ==
    LET inweek == SelectSeq(msgs, LAMBDA m : week_key(m.timestamp) = w)
    IN  [i \in 1..Len(inweek) |-> inweek[i].polarity]

week_entry(msgs, w) ==
    LET pols == week_polarities(msgs, w)
    IN  [week |-> w,
         avg_polarity |-> Round(QDiv(QSum(pols), I(Len(pols))), 3),
         message_count |-> Len(pols)]

\* for week_key in sorted(weeks.keys())
RECURSIVE WeeksInOrder(_, _)
WeeksInOrder(msgs, ws) ==
    IF ws = {} THEN <<>>
    ELSE LET w == CHOOSE x \in ws : \A y \in ws : x <= y
         IN  <<week_entry(msgs, w)>> \o WeeksInOrder(msgs, ws \ {w})

_compute_weekly_sentiment(msgs) ==
    WeeksInOrder(msgs, {week_key(msgs[i].timestamp) : i \in 1..Len(msgs)})

CountLabel(analyzed, label) ==
    Cardinality({i \in 1..Len(analyzed) : analyzed[i].label = label})

polarity_trend_middle_in_first_half(polarities) ==
    LET n == Len(polarities)
        mid == (n + 1) \div 2
    IN  IF mid > 0 /\ mid < n
        THEN LET first_half_avg == QDiv(QSum(SubSeq(polarities, 1, mid)), I(mid))
                 second_half_avg == QDiv(QSum(SubSeq(polarities, mid + 1, n)), I(n - mid))
                 diff == QSub(second_half_avg, first_half_avg)
             IN  IF QLt(diff, Q(-15, 100)) THEN "declining"
                 ELSE IF QLt(Q(15, 100), diff) THEN "improving"
                 ELSE "stable"
        ELSE "stable"

\* the trend of the chronologically ordered polarities
polarity_trend(polarities) ==
    LET n == Len(polarities)
        mid == n \div 2
    IN  IF mid > 0
        THEN LET first_half_avg == QDiv(QSum(SubSeq(polarities, 1, mid)), I(mid))
                 second_half_avg == QDiv(QSum(SubSeq(polarities, mid + 1, n)), I(n - mid))
                 diff == QSub(second_half_avg, first_half_avg)
             IN  IF QLt(diff, Q(-15, 100)) THEN "declining"
                 ELSE IF QLt(Q(15, 100), diff) THEN "improving"
                 ELSE "stable"
        ELSE "stable"

analyze_messages(msgs) ==
    IF msgs = <<>>
    THEN [messages |-> <<>>, average_polarity |-> I(0), trend |-> "stable",
          sentiment_label |-> "neutral"]
    ELSE LET analyzed == SortByTimestamp([i \in 1..Len(msgs) |-> analyzed_message(msgs[i])])
             polarities == [i \in 1..Len(analyzed) |-> analyzed[i].polarity]
             avg_polarity == Round(QDiv(QSum(polarities), I(Len(polarities))), 3)
         IN  [messages |-> analyzed,
              average_polarity |-> avg_polarity,
              trend |-> polarity_trend(polarities),
              sentiment_label |-> _polarity_label(avg_polarity),
              total_messages |-> Len(analyzed),
              positive_count |-> CountLabel(analyzed, "positive"),
              neutral_count |-> CountLabel(analyzed, "neutral"),
              negative_count |-> CountLabel(analyzed, "negative"),
              weekly_breakdown |-> _compute_weekly_sentiment(analyzed)]

(***************************************************************************)
(* Work pattern score                                                      *)
(***************************************************************************)
compute_work_pattern_score(logs) ==
    IF logs = <<>> THEN I(50)
    ELSE LET recent_logs == Last4(logs)
             avg_daily_hours == Mean(recent_logs, "avg_daily_hours")
             avg_weekend_hours == Mean(recent_logs, "weekend_hours")
             avg_late_nights == Mean(recent_logs, "late_night_sessions")
             avg_breaks == Mean(recent_logs, "breaks_taken_per_day")
             avg_pto_balance == Mean(recent_logs, "pto_balance_days")
             hours_factor ==
                 Clamp100(QMul(QDiv(QSub(avg_daily_hours, I(8)), I(6)), I(100)))
             weekend_factor == Clamp100(QMul(QDiv(avg_weekend_hours, I(6)), I(100)))
             late_factor == Clamp100(QMul(QDiv(avg_late_nights, I(5)), I(100)))
             breaks_factor ==
                 Clamp100(QMul(QDiv(QSub(I(5), avg_breaks), I(5)), I(100)))
             pto_factor ==
                 Clamp100(QMul(QDiv(QSub(I(15), avg_pto_balance), I(15)), I(100)))
             score == QSum(<< QMul(hours_factor, Q(30, 100)),
                              QMul(weekend_factor, Q(20, 100)),
                              QMul(late_factor, Q(20, 100)),
                              QMul(breaks_factor, Q(15, 100)),
                              QMul(pto_factor, Q(15, 100)) >>)
         IN  Round(score, 1)

(***************************************************************************)
(* Productivity score                                                      *)
(***************************************************************************)
completion_divisor_unguarded(recent_assigned) == recent_assigned

\* the divisor of the completion rate: max(recent_assigned, 1)
completion_divisor(recent_assigned) == QMax(recent_assigned, I(1))

\* whether the decline is computed by dividing by older_completion
decline_divides(older_completion) == QLt(I(0), older_completion)

too_few_logs_below_1(logs) == logs = <<>> \/ Len(logs) < 1

\* not work_logs or len(work_logs) < 2
too_few_logs(logs) == logs = <<>> \/ Len(logs) < 2

productivity_recent(logs) == Last4(logs)
productivity_older(logs) ==
    IF Len(logs) >= 4 THEN SubSeq(logs, 1, 4) ELSE SubSeq(logs, 1, 1)

compute_productivity_score(logs) ==
    IF too_few_logs(logs) THEN I(50)
    ELSE LET recent == productivity_recent(logs)
             older == productivity_older(logs)
             recent_completion == Mean(recent, "tasks_completed")
             older_completion == Mean(older, "tasks_completed")
             recent_assigned == Mean(recent, "tasks_assigned")
             completion_rate ==
                 QMul(QDiv(recent_completion, completion_divisor(recent_assigned)), I(100))
             decline ==
                 IF decline_divides(older_completion)
                 THEN QMul(QDiv(QSub(older_completion, recent_completion),
                                older_completion), I(100))
                 ELSE I(0)
             completion_factor ==
                 Clamp100(QMul(QDiv(QSub(I(100), completion_rate), I(70)), I(100)))
             decline_factor == Clamp100(QMul(decline, I(2)))
             score == QAdd(QMul(completion_factor, Q(50, 100)),
                           QMul(decline_factor, Q(50, 100)))
         IN  Round(score, 1)

\* compute_productivity_score ends in ZeroDivisionError
compute_productivity_score_raises(logs) ==
    /\ ~too_few_logs(logs)
    /\ LET recent == productivity_recent(logs)
           older == productivity_older(logs)
       IN  \/ Len(recent) = 0
           \/ Len(older) = 0
           \/ completion_divisor(Mean(recent, "tasks_assigned")) = I(0)
           \/ /\ decline_divides(Mean(older, "tasks_completed"))
              /\ Mean(older, "tasks_completed") = I(0)

(***************************************************************************)
(* Sentiment score                                                         *)
(***************************************************************************)
\* not sentiment_analysis or not sentiment_analysis.get("messages")
no_sentiment(sentiment_analysis) ==
    \/ DOMAIN sentiment_analysis = {}
    \/ "messages" \notin DOMAIN sentiment_analysis
    \/ sentiment_analysis.messages = <<>>

compute_sentiment_score(sentiment_analysis) ==
    IF no_sentiment(sentiment_analysis) THEN I(50)
    ELSE LET avg_polarity == sentiment_analysis.average_polarity
             trend == sentiment_analysis.trend
             negative_ratio ==
                 QDiv(I(sentiment_analysis.negative_count),
                      QMax(I(sentiment_analysis.total_messages), I(1)))
             polarity_score == QMul(QDiv(QSub(I(1), avg_polarity), I(2)), I(100))
             trend_bonus == IF trend = "declining" THEN 15
                            ELSE IF trend = "improving" THEN -10 ELSE 0
             negative_score == QMul(negative_ratio, I(100))
             score == QSum(<< QMul(polarity_score, Q(50, 100)),
                              QMul(negative_score, Q(30, 100)),
                              QMul(I(50 + trend_bonus), Q(20, 100)) >>)
         IN  Round(Clamp100(score), 1)

(***************************************************************************)
(* Anti-faking detection                                                   *)
(***************************************************************************)
\* None (compared only with values that are None or texts), and the empty dict
None == "None"
EmptyDict == [k \in {} |-> 0]

\* d.get(key, {}) of a dict d
GetOrEmpty(d, key) == IF key \in DOMAIN d THEN d[key] ELSE EmptyDict

\* sum of the values of a dict
RECURSIVE SumValues(_, _)
SumValues(d, keys) ==
    IF keys = {} THEN I(0)
    ELSE LET k == CHOOSE x \in keys : TRUE
         IN  QAdd(d[k], SumValues(d, keys \ {k}))

\* sum((t - avg_time) ** 2 for t in times)
RECURSIVE SumSquares(_, _, _)
SumSquares(d, keys, avg_time) ==
    IF keys = {} THEN I(0)
    ELSE LET k == CHOOSE x \in keys : TRUE
             dev == QSub(d[k], avg_time)
         IN  QAdd(QMul(dev, dev), SumSquares(d, keys \ {k}, avg_time))

response_time_checks_more_than_4(response_times) ==
    IF DOMAIN response_times # {}
    THEN LET n == Cardinality(DOMAIN response_times)
             avg_time == QDiv(SumValues(response_times, DOMAIN response_times), I(n))
             variance == QDiv(SumSquares(response_times, DOMAIN response_times, avg_time),
                              I(n))
         IN  [fast |-> QLt(avg_time, I(3)),
              uniform |-> n > 4 /\ QLt(variance, I(1))]
    ELSE [fast |-> FALSE, uniform |-> FALSE]

\* check 1: [fast, uniform] of the response times
response_time_checks(response_times) ==
    IF DOMAIN response_times # {}
    THEN LET n == Cardinality(DOMAIN response_times)
             avg_time == QDiv(SumValues(response_times, DOMAIN response_times), I(n))
             variance == QDiv(SumSquares(response_times, DOMAIN response_times, avg_time),
                              I(n))
         IN  [fast |-> QLt(avg_time, I(3)),
              uniform |-> n > 3 /\ QLt(variance, I(1))]
    ELSE [fast |-> FALSE, uniform |-> FALSE]

work_gap_check_either_direction(assessment_score, logs) ==
    /\ logs # <<>>
    /\ QLt(I(40), QAbs(QSub(compute_work_pattern_score(logs), assessment_score)))

\* check 2: self-report against the work data
work_gap_check(assessment_score, logs) ==
    /\ logs # <<>>
    /\ LET work_score == compute_work_pattern_score(logs)
           gap == QAbs(QSub(work_score, assessment_score))
       IN  QLt(I(40), gap) /\ QLt(assessment_score, work_score)

\* check 3: self-report against the sentiment
sentiment_gap_check(assessment_score, sentiment_analysis) ==
    /\ ~no_sentiment(sentiment_analysis)
    /\ LET sentiment_score == compute_sentiment_score(sentiment_analysis)
           gap == QAbs(QSub(sentiment_score, assessment_score))
       IN  QLt(I(35), gap) /\ QLt(assessment_score, sentiment_score)

\* check 4: the answers take at most two distinct values
pattern_check(answers) ==
    /\ DOMAIN answers # {}
    /\ Cardinality({answers[k] : k \in DOMAIN answers}) <= 2

\* what a check adds: its reason and its suspicion, nothing if it did not fire
Fired(fires, reason, suspicion) ==
    IF fires THEN [reasons |-> <<reason>>, score |-> suspicion]
    ELSE [reasons |-> <<>>, score |-> I(0)]

is_suspicious_at_above(suspicion_score) == QLt(Q(3, 10), suspicion_score)

\* suspicion_score >= 0.3
is_suspicious_at(suspicion_score) == QLe(Q(3, 10), suspicion_score)

\* the verdict when there is no assessment
NotSuspiciousVerdict == [is_suspicious |-> FALSE, confidence |-> I(0), reasons |-> <<>>]

detect_faking(assessment, logs, sentiment_analysis) ==
    IF DOMAIN assessment = {}
    THEN NotSuspiciousVerdict
    ELSE LET answers == GetOrEmpty(assessment, "answers")
             response_times == GetOrEmpty(assessment, "response_times")
             assessment_score == compute_assessment_score(answers)
             rt == response_time_checks(response_times)
             c1 == Fired(rt.fast, "fast_response", Q(3, 10))
             c2 == Fired(rt.uniform, "uniform_response_times", Q(2, 10))
             c3 == Fired(work_gap_check(assessment_score, logs), "work_data_gap", Q(3, 10))
             c4 == Fired(sentiment_gap_check(assessment_score, sentiment_analysis),
                         "sentiment_gap", Q(2, 10))
             c5 == Fired(pattern_check(answers), "pattern_response", Q(15, 100))
             suspicion_score == QSum(<<c1.score, c2.score, c3.score, c4.score, c5.score>>)
         IN  [is_suspicious |-> is_suspicious_at(suspicion_score),
              confidence |-> Round(QMin(I(1), suspicion_score), 2),
              reasons |-> c1.reasons \o c2.reasons \o c3.reasons \o c4.reasons
                          \o c5.reasons]

(***************************************************************************)
(* Composite burnout score                                                 *)
(***************************************************************************)
composite_of_wellbeing(assessment_score, sentiment_score, work_score, productivity_score) ==
    Round(Clamp100(QSum(<< QMul(QSub(I(100), assessment_score), WEIGHTS["assessment"]),
                           QMul(sentiment_score, WEIGHTS["sentiment"]),
                           QMul(work_score, WEIGHTS["work_pattern"]),
                           QMul(productivity_score, WEIGHTS["productivity"]) >>)), 1)

\* min(100, max(0, weighted sum)) rounded to 1 decimal
composite_of(assessment_score, sentiment_score, work_score, productivity_score) ==
    Round(Clamp100(QSum(<< QMul(assessment_score, WEIGHTS["assessment"]),
                           QMul(sentiment_score, WEIGHTS["sentiment"]),
                           QMul(work_score, WEIGHTS["work_pattern"]),
                           QMul(productivity_score, WEIGHTS["productivity"]) >>)), 1)

objective_of(sentiment_score, work_score, productivity_score) ==
    QSum(<< QMul(sentiment_score, Q(40, 100)),
            QMul(work_score, Q(35, 100)),
            QMul(productivity_score, Q(25, 100)) >>)

\* the score after the anti-faking adjustment
adjusted_of_without_max(composite, is_suspicious, objective_score) ==
    IF is_suspicious THEN Round(objective_score, 1) ELSE composite

adjusted_of(composite, is_suspicious, objective_score) ==
    IF is_suspicious THEN Round(QMax(composite, objective_score), 1) ELSE composite

Breakdown(a, s, w, p) ==
    [assessment |-> [score |-> a, weight |-> WEIGHTS["assessment"]],
     sentiment |-> [score |-> s, weight |-> WEIGHTS["sentiment"]],
     work_pattern |-> [score |-> w, weight |-> WEIGHTS["work_pattern"]],
     productivity |-> [score |-> p, weight |-> WEIGHTS["productivity"]]]

\* the dict compute_burnout_score returns for a non-empty assessment list,
\* from its locals: the four sub-scores, the sentiment summary, the
\* composite and the faking verdict
measured_result(employee_id, assmts, assessment_score, sentiment_analysis, sentiment_score, work_score, productivity_score, composite, faking_result) ==
    LET adjusted_score ==
            adjusted_of(composite, faking_result.is_suspicious,
                        objective_of(sentiment_score, work_score, productivity_score))
    IN  [employee_id |-> employee_id,
         composite_score |-> composite,
         adjusted_score |-> adjusted_score,
         risk_level |-> _get_risk_level(adjusted_score),
         breakdown |-> Breakdown(assessment_score, sentiment_score, work_score,
                                 productivity_score),
         sentiment_analysis |-> sentiment_analysis,
         faking_detection |-> faking_result,
         assessment_trend |->
             [i \in 1..Len(assmts) |->
                 [date |-> assmts[i].timestamp,
                  score |-> compute_assessment_score(assmts[i].answers)]],
         last_assessment_date |-> assmts[Len(assmts)].timestamp]

\* lines 401-411: the composite and the anti-faking check, from the sub-scores
score_from_subscores(employee_id, assmts, logs, assessment_score, sentiment_analysis, sentiment_score, work_score, productivity_score) ==
    measured_result(employee_id, assmts, assessment_score, sentiment_analysis,
                   sentiment_score, work_score, productivity_score,
                   composite_of(assessment_score, sentiment_score, work_score,
                                productivity_score),
                   detect_faking(assmts[Len(assmts)], logs, sentiment_analysis))

\* lines 390-399: the sub-scores of the latest assessment, the logs and the summary
score_latest(employee_id, assmts, logs, sentiment_analysis) ==
    score_from_subscores(employee_id, assmts, logs,
                         compute_assessment_score(assmts[Len(assmts)].answers),
                         sentiment_analysis,
                         compute_sentiment_score(sentiment_analysis),
                         compute_work_pattern_score(logs),
                         compute_productivity_score(logs))

unmeasured_result_scoring_sentiment(employee_id, sentiment_analysis) ==
    [employee_id |-> employee_id,
     composite_score |-> I(0),
     adjusted_score |-> I(0),
     risk_level |-> "low",
     breakdown |-> Breakdown(I(0), compute_sentiment_score(sentiment_analysis), I(0), I(0)),
     sentiment_analysis |-> sentiment_analysis,
     faking_detection |-> [is_suspicious |-> FALSE, confidence |-> I(0), reasons |-> <<>>],
     assessment_trend |-> <<>>,
     last_assessment_date |-> None]

\* lines 371-388: the result when no assessment was taken
unmeasured_result(employee_id, sentiment_analysis) ==
    [employee_id |-> employee_id,
     composite_score |-> I(0),
     adjusted_score |-> I(0),
     risk_level |-> "low",
     breakdown |-> Breakdown(I(0), I(0), I(0), I(0)),
     sentiment_analysis |-> sentiment_analysis,
     faking_detection |-> [is_suspicious |-> FALSE, confidence |-> I(0), reasons |-> <<>>],
     assessment_trend |-> <<>>,
     last_assessment_date |-> None]

compute_burnout_score(employee_id, assmts, logs, msgs) ==
    IF assmts = <<>>
    THEN unmeasured_result(employee_id, analyze_messages(msgs))
    ELSE score_latest(employee_id, assmts, logs, analyze_messages(msgs))

(***************************************************************************)
(* HR alerts                                                               *)
(***************************************************************************)
Recommend(cond, actions) == IF cond THEN actions ELSE <<>>

_get_recommendations_from_high(burnout_result) ==
    LET breakdown == burnout_result.breakdown
        score == burnout_result.adjusted_score
    IN  Recommend(QLt(I(60), breakdown.work_pattern.score),
                  << [action |-> "reduce_workload", priority |-> "high"],
                     [action |-> "enforce_time_off", priority |-> "high"] >>)
        \o Recommend(QLt(I(60), breakdown.sentiment.score),
                  << [action |-> "schedule_1on1", priority |-> "high"] >>)
        \o Recommend(QLt(I(70), breakdown.assessment.score),
                  << [action |-> "counseling_referral", priority |-> "medium"] >>)
        \o Recommend(QLt(I(60), breakdown.productivity.score),
                  << [action |-> "task_redistribution", priority |-> "medium"] >>)
        \o Recommend(QLe(RISK_THRESHOLDS["high"], score),
                  << [action |-> "immediate_intervention", priority |-> "critical"] >>)

_get_recommendations(burnout_result) ==
    LET breakdown == burnout_result.breakdown
        score == burnout_result.adjusted_score
    IN  Recommend(QLt(I(60), breakdown.work_pattern.score),
                  << [action |-> "reduce_workload", priority |-> "high"],
                     [action |-> "enforce_time_off", priority |-> "high"] >>)
        \o Recommend(QLt(I(60), breakdown.sentiment.score),
                  << [action |-> "schedule_1on1", priority |-> "high"] >>)
        \o Recommend(QLt(I(70), breakdown.assessment.score),
                  << [action |-> "counseling_referral", priority |-> "medium"] >>)
        \o Recommend(QLt(I(60), breakdown.productivity.score),
                  << [action |-> "task_redistribution", priority |-> "medium"] >>)
        \o Recommend(QLe(RISK_THRESHOLDS["critical"], score),
                  << [action |-> "immediate_intervention", priority |-> "critical"] >>)

generate_alerts_faking_first(emp, burnout_result) ==
    LET risk == burnout_result.risk_level
        faking == burnout_result.faking_detection
        sentiment == burnout_result.sentiment_analysis
    IN  (IF faking.is_suspicious
         THEN << [type |-> "faking_detected", severity |-> "warning",
                  name |-> emp.name, details |-> faking.reasons] >>
         ELSE <<>>)
        \o (IF risk \in {"high", "critical"}
            THEN << [type |-> "burnout_risk", severity |-> risk, name |-> emp.name,
                     recommended_actions |-> _get_recommendations(burnout_result)] >>
            ELSE <<>>)
        \o (IF "trend" \in DOMAIN sentiment /\ sentiment.trend = "declining"
            THEN << [type |-> "sentiment_decline", severity |-> "moderate",
                     name |-> emp.name] >>
            ELSE <<>>)

\* title and message are texts built from the employee's name, role and
\* department and the scores; an alert keeps the employee's name for them
generate_alerts(emp, burnout_result) ==
    LET risk == burnout_result.risk_level
        faking == burnout_result.faking_detection
        sentiment == burnout_result.sentiment_analysis
    IN  (IF risk \in {"high", "critical"}
         THEN << [type |-> "burnout_risk", severity |-> risk, name |-> emp.name,
                  recommended_actions |-> _get_recommendations(burnout_result)] >>
         ELSE <<>>)
        \o (IF faking.is_suspicious
            THEN << [type |-> "faking_detected", severity |-> "warning",
                     name |-> emp.name, details |-> faking.reasons] >>
            ELSE <<>>)
        \o (IF "trend" \in DOMAIN sentiment /\ sentiment.trend = "declining"
            THEN << [type |-> "sentiment_decline", severity |-> "moderate",
                     name |-> emp.name] >>
            ELSE <<>>)

(***************************************************************************)
(* Exceptions.  Each predicate holds when the call ends in an exception     *)
(* (ZeroDivisionError of a division, KeyError of a d[key]) and not in a     *)
(* return value.                                                            *)
(***************************************************************************)
HasKeys(d, keys) == keys \subseteq DOMAIN d

analyze_messages_raises(msgs) ==
    /\ msgs # <<>>
    /\ \E i \in 1..Len(msgs) : ~HasKeys(msgs[i], {"content", "timestamp"})

compute_work_pattern_score_raises(logs) ==
    /\ logs # <<>>
    /\ \/ Len(Last4(logs)) = 0
       \/ \E i \in 1..Len(logs) :
              ~HasKeys(logs[i], {"avg_daily_hours", "weekend_hours", "late_night_sessions",
                                 "breaks_taken_per_day", "pto_balance_days"})

compute_sentiment_score_raises(sentiment_analysis) ==
    /\ ~no_sentiment(sentiment_analysis)
    /\ \/ ~HasKeys(sentiment_analysis,
                   {"average_polarity", "trend", "negative_count", "total_messages"})
       \/ QMax(I(sentiment_analysis.total_messages), I(1)) = I(0)

detect_faking_raises(assessment, logs, sentiment_analysis) ==
    /\ DOMAIN assessment # {}
    /\ \/ (logs # <<>> /\ compute_work_pattern_score_raises(logs))
       \/ compute_sentiment_score_raises(sentiment_analysis)

compute_burnout_score_raises(assmts, logs, msgs) ==
    IF assmts = <<>> THEN analyze_messages_raises(msgs)
    ELSE \/ \E i \in 1..Len(assmts) : ~HasKeys(assmts[i], {"answers", "timestamp"})
         \/ analyze_messages_raises(msgs)
         \/ compute_sentiment_score_raises(analyze_messages(msgs))
         \/ compute_work_pattern_score_raises(logs)
         \/ compute_productivity_score_raises(logs)
         \/ detect_faking_raises(assmts[Len(assmts)], logs, analyze_messages(msgs))

generate_alerts_raises(emp, burnout_result) ==
    \/ /\ burnout_result.risk_level \in {"high", "critical"}
       /\ ~HasKeys(emp, {"name", "role", "department"})
    \/ /\ burnout_result.faking_detection.is_suspicious
       /\ ~HasKeys(emp, {"name"})
    \/ /\ "trend" \in DOMAIN burnout_result.sentiment_analysis
       /\ burnout_result.sentiment_analysis.trend = "declining"
       /\ \/ ~HasKeys(emp, {"name"})
          \/ ~HasKeys(burnout_result.sentiment_analysis, {"average_polarity"})

(***************************************************************************)
(* The caller's collections after an engine call.  The engine builds new    *)
(* lists and new dicts (analyzed = [], {**msg, ...}, slices) and sorts      *)
(* only its own list, so every argument is left as it was.                  *)
(***************************************************************************)
\* WEIGHTS after a scoring call: the engine only reads its module-level dicts
WEIGHTS_after_score_renormalised(w, logs) ==
    IF logs = <<>>
    THEN [w EXCEPT !.assessment = QAdd(w.assessment, w.work_pattern), !.work_pattern = I(0)]
    ELSE w

WEIGHTS_after_score(w, logs) == w

messages_after_analyze_sorting_in_place(msgs) == SortByTimestamp(msgs)

messages_after_analyze(msgs) == msgs
assessments_after_score(assmts) == assmts
work_logs_after_score(logs) == logs

(***************************************************************************)
(* Inputs                                                                  *)
(***************************************************************************)
MaxHistory == 1     \* assessments before the latest one
MaxMsgs == 2        \* messages of the employee
MaxLogs == 2        \* weekly work-log entries of the employee

SeqsUpTo(S, n) == UNION {[1..k -> S] : k \in 0..n}

Employees ==
    {[id |-> "E1", name |-> "Ana", role |-> "Engineer", department |-> "R&D"]}

\* every question answered: u on the burnout categories, v on the positive ones
Profile(u, v) ==
    [q \in QIds |->
        IF \E i \in 1..Len(ASSESSMENT_QUESTIONS) :
               /\ ASSESSMENT_QUESTIONS[i].id = q
               /\ ASSESSMENT_QUESTIONS[i].category \in PositiveCategories
        THEN v ELSE u]

AnswerMaps ==
    {EmptyDict, Profile(1, 5), Profile(5, 1),
     [q1 |-> 2, q2 |-> 3, q3 |-> 4, q4 |-> 2, q5 |-> 1]}

ResponseTimeMaps ==
    {EmptyDict,
     [q1 |-> Q(15, 10), q2 |-> Q(15, 10), q3 |-> Q(15, 10), q4 |-> Q(15, 10)],
     [q \in QIds |-> Q(15, 10)],
     [q1 |-> I(4), q2 |-> I(9), q3 |-> I(6), q4 |-> I(12), q5 |-> I(5)]}

\* the latest assessment; mock records may carry no response_times key
LatestAssessments ==
    {[timestamp |-> 30, answers |-> a, response_times |-> t] :
        a \in AnswerMaps, t \in ResponseTimeMaps}
    \cup {[timestamp |-> 30, answers |-> a] : a \in AnswerMaps}

HistoryAssessments ==
    {[timestamp |-> 10, answers |-> Profile(3, 3), response_times |-> EmptyDict]}

AssessmentSeqs ==
    {<<>>} \cup {h \o <<a>> : h \in SeqsUpTo(HistoryAssessments, MaxHistory),
                              a \in LatestAssessments}

Messages ==
    {[content |-> "great", timestamp |-> 3],
     [content |-> "terrible", timestamp |-> 12]}

MessageSeqs == SeqsUpTo(Messages, MaxMsgs)

WorkLog(h, w, l, b, p, c, a) ==
    [avg_daily_hours |-> h, weekend_hours |-> w, late_night_sessions |-> l,
     breaks_taken_per_day |-> b, pto_balance_days |-> p,
     tasks_completed |-> c, tasks_assigned |-> a]

\* a week of overwork beyond the 14 h ceiling with 6 of 10 tasks done, and a
\* short week with PTO to spare and no task at all
WorkLogs ==
    {WorkLog(I(16), I(6), I(5), I(0), I(0), I(6), I(10)),
     WorkLog(I(6), I(0), I(0), I(5), I(25), I(0), I(0))}

WorkLogSeqs == SeqsUpTo(WorkLogs, MaxLogs)

LatestOf(assmts) == IF assmts = <<>> THEN EmptyDict ELSE assmts[Len(assmts)]

(***************************************************************************)
(* One request at a time: the handler's calls into the engine              *)
(***************************************************************************)
ModuleInit ==
    /\ WEIGHTS = WEIGHTS_init
    /\ RISK_THRESHOLDS = RISK_THRESHOLDS_init

\* the engine called directly: no store, no session
NoApp ==
    /\ DATA = [employees |-> <<>>, work_logs |-> EmptyDict, messages |-> EmptyDict,
               assessments |-> EmptyDict, hr_actions |-> EmptyDict, peer_reports |-> <<>>,
               sessions |-> EmptyDict]
    /\ requests = EmptyDict
    /\ session = EmptyDict
    /\ now = 0

LocalsInit ==
    /\ pc = "idle"
    /\ result = None
    /\ alerts = None
    /\ prev = <<>>
    /\ arg = None
    /\ ret = None
    /\ raised = FALSE

Init ==
    /\ NoApp
    /\ employee \in Employees
    /\ assessments \in AssessmentSeqs
    /\ work_logs \in WorkLogSeqs
    /\ messages \in MessageSeqs
    /\ ModuleInit
    /\ LocalsInit

\* the kept call, marked once a call on other collections has been made since
NoteCall(kept, assmts, logs, msgs) ==
    IF kept = <<>> THEN kept
    ELSE IF kept[1].assessments = assmts /\ kept[1].work_logs = logs /\ kept[1].messages = msgs
         THEN kept
         ELSE <<[kept[1] EXCEPT !.other_since = TRUE]>>

\* get_employee_burnout: compute_burnout_score on the employee's collections
Score ==
    /\ pc = "idle"
    /\ raised' = compute_burnout_score_raises(assessments, work_logs, messages)
    /\ result' = IF raised' THEN None
                 ELSE compute_burnout_score(employee.id, assessments, work_logs, messages)
    /\ assessments' = assessments_after_score(assessments)
    /\ work_logs' = work_logs_after_score(work_logs)
    /\ messages' = messages_after_analyze(messages)
    /\ WEIGHTS' = WEIGHTS_after_score(WEIGHTS, work_logs)
    /\ prev' = NoteCall(prev, assessments, work_logs, messages)
    /\ pc' = "scored"
    /\ UNCHANGED <<app, employee, RISK_THRESHOLDS, alerts, arg, ret>>

\* generate_alerts on the result just computed
GenerateAlerts ==
    /\ pc = "scored"
    /\ ~raised
    /\ raised' = generate_alerts_raises(employee, result)
    /\ alerts' = IF raised' THEN None ELSE generate_alerts(employee, result)
    /\ pc' = "alerted"
    /\ UNCHANGED <<app, employee, assessments, work_logs, messages, WEIGHTS, RISK_THRESHOLDS,
                   result, prev, arg, ret>>

\* api_get_sentiment: analyze_messages on the employee's messages
AnalyzeMessages ==
    /\ pc = "idle"
    /\ raised' = analyze_messages_raises(messages)
    /\ ret' = IF raised' THEN None ELSE analyze_messages(messages)
    /\ messages' = messages_after_analyze(messages)
    /\ pc' = "analyzed"
    /\ UNCHANGED <<app, employee, assessments, work_logs, WEIGHTS, RISK_THRESHOLDS,
                   result, alerts, prev, arg>>

\* detect_faking on the latest assessment and the summary just computed
DetectFaking ==
    /\ pc = "analyzed"
    /\ ~raised
    /\ arg' = ret
    /\ raised' = detect_faking_raises(LatestOf(assessments), work_logs, ret)
    /\ ret' = IF raised' THEN None
              ELSE detect_faking(LatestOf(assessments), work_logs, ret)
    /\ pc' = "checked"
    /\ UNCHANGED <<app, employee, assessments, work_logs, messages, WEIGHTS, RISK_THRESHOLDS,
                   result, alerts, prev>>

\* the request ends: the handler's locals are gone
Return ==
    /\ pc # "idle"
    /\ pc' = "idle"
    /\ result' = None
    /\ alerts' = None
    /\ arg' = None
    /\ ret' = None
    /\ raised' = FALSE
    /\ UNCHANGED <<app, employee, assessments, work_logs, messages, WEIGHTS, RISK_THRESHOLDS,
                   prev>>

Next == Score \/ GenerateAlerts \/ AnalyzeMessages \/ DetectFaking \/ Return

Spec == Init /\ [][Next]_vars

\* a burnout result is at hand: compute_burnout_score returned it
Scored == pc \in {"scored", "alerted"} /\ ~raised

Range(seq) == {seq[i] : i \in 1..Len(seq)}

(***************************************************************************)
(* Properties                                                              *)
(***************************************************************************)
\* C1: whatever the assessments, work logs and messages are, and whether or
\* not the faking verdict is suspicious, the adjusted score of a result is
\* greater than or equal to its composite score.
AdjustedNotBelowComposite ==
    Scored => QLe(result.composite_score, result.adjusted_score)

\* the verdict is suspicious and the adjustment raised the score
AdjustmentRaisedScore ==
    /\ Scored
    /\ result.faking_detection.is_suspicious
    /\ QLt(result.composite_score, result.adjusted_score)

\* C3: with no assessment, the result is the unmeasured one (all scores 0,
\* risk low, not suspicious with confidence 0 and no reasons, empty trend,
\* no last assessment date) whatever the work logs and messages are, and its
\* sentiment summary is analyze_messages of the messages.
UnmeasuredWhenNoAssessment ==
    (Scored /\ assessments = <<>>) =>
        /\ result.composite_score = I(0)
        /\ result.adjusted_score = I(0)
        /\ result.risk_level = "low"
        /\ \A k \in {"assessment", "sentiment", "work_pattern", "productivity"} :
               result.breakdown[k].score = I(0)
        /\ result.faking_detection.is_suspicious = FALSE
        /\ result.faking_detection.confidence = I(0)
        /\ result.faking_detection.reasons = <<>>
        /\ result.assessment_trend = <<>>
        /\ result.last_assessment_date = None
        /\ result.sentiment_analysis = analyze_messages(messages)

\* scored with no assessment while messages and work logs exist
UnmeasuredWithSignals ==
    /\ Scored
    /\ assessments = <<>>
    /\ Len(messages) >= 2
    /\ work_logs # <<>>

\* at least 4 response times, all of them 1.5 seconds
AllTimesOneAndAHalf(a) ==
    /\ "response_times" \in DOMAIN a
    /\ Cardinality(DOMAIN a.response_times) >= 4
    /\ \A k \in DOMAIN a.response_times : a.response_times[k] = Q(15, 10)

FastAndUniformVerdict(v) ==
    /\ v.is_suspicious
    /\ QLe(Q(3, 10), v.confidence)
    /\ "fast_response" \in Range(v.reasons)
    /\ "uniform_response_times" \in Range(v.reasons)

\* C6: detect_faking on an assessment with at least 4 response times all
\* equal to 1.5 s is suspicious with confidence >= 0.3 and gives both the
\* fast-response and the uniform-response-times reason, whatever the
\* answers, work logs and sentiment summary are.
FastUniformTimesAreSuspicious ==
    /\ (pc = "checked" /\ ~raised /\ AllTimesOneAndAHalf(LatestOf(assessments)))
           => FastAndUniformVerdict(ret)
    /\ (Scored /\ AllTimesOneAndAHalf(LatestOf(assessments)))
           => FastAndUniformVerdict(result.faking_detection)

\* detect_faking returned for exactly 4 response times of 1.5 s
CheckedFourFastTimes ==
    /\ pc = "checked"
    /\ ~raised
    /\ AllTimesOneAndAHalf(LatestOf(assessments))
    /\ Cardinality(DOMAIN LatestOf(assessments).response_times) = 4

\* C8: no engine call changes the assessment list, the work-log list or the
\* message list it was given: same length, same order, same records.
InputsUnchanged ==
    [][/\ assessments' = assessments
       /\ work_logs' = work_logs
       /\ messages' = messages]_vars

\* the engine was given messages that are not in timestamp order
ScoredUnsortedMessages ==
    /\ pc \in {"scored", "analyzed"}
    /\ ~raised
    /\ \E i \in 1..Len(messages) - 1 : messages[i].timestamp > messages[i + 1].timestamp

\* C9: for every combination of empty or short collections, the scoring
\* call and the alert call that follows it return: neither ends in an
\* exception.
NoException == pc \in {"scored", "alerted"} => ~raised

\* alerts were produced from an assessment with no answers and no response
\* times and from weeks with no task assigned or completed
AlertedOnEmptyRecords ==
    /\ pc = "alerted"
    /\ ~raised
    /\ assessments # <<>>
    /\ DOMAIN LatestOf(assessments).answers = {}
    /\ "response_times" \notin DOMAIN LatestOf(assessments)
    /\ Len(work_logs) >= 2
    /\ \A i \in 1..Len(work_logs) :
           work_logs[i].tasks_assigned = I(0) /\ work_logs[i].tasks_completed = I(0)

NeutralSummary ==
    [messages |-> <<>>, average_polarity |-> I(0), trend |-> "stable",
     sentiment_label |-> "neutral"]

\* C10: missing input gives the neutral defaults: work-pattern score 50 for
\* no work logs, productivity score 50 for fewer than 2 entries, sentiment
\* score 50 for no messages, and analyze_messages of no messages is exactly
\* the 4-field neutral summary.
NeutralDefaults ==
    /\ (Scored /\ assessments # <<>>) =>
           /\ work_logs = <<>> => result.breakdown.work_pattern.score = I(50)
           /\ Len(work_logs) < 2 => result.breakdown.productivity.score = I(50)
           /\ messages = <<>> => result.breakdown.sentiment.score = I(50)
    /\ (Scored /\ messages = <<>>) => result.sentiment_analysis = NeutralSummary
    /\ (pc = "analyzed" /\ ~raised /\ messages = <<>>) => ret = NeutralSummary

\* scored from a single work-log entry and no messages
ScoredOneLogNoMessages ==
    /\ Scored
    /\ assessments # <<>>
    /\ Len(work_logs) = 1
    /\ messages = <<>>

(***************************************************************************)
(* _get_risk_level applied to every score with one decimal in [0, 100]      *)
(***************************************************************************)
Scores == {Q(k, 10) : k \in 0..(100 * 10)}

IdleInit ==
    /\ NoApp
    /\ employee \in Employees
    /\ assessments = <<>>
    /\ work_logs = <<>>
    /\ messages = <<>>
    /\ ModuleInit
    /\ LocalsInit

GetRiskLevel ==
    /\ pc = "idle"
    /\ \E score \in Scores :
           /\ arg' = score
           /\ ret' = _get_risk_level(score)
    /\ pc' = "risk_level"
    /\ UNCHANGED <<app, employee, assessments, work_logs, messages, WEIGHTS, RISK_THRESHOLDS,
                   result, alerts, prev, raised>>

SpecRisk == IdleInit /\ [][GetRiskLevel \/ Return]_vars

\* the tier the documented boundaries give: low below 35, moderate from 35,
\* high from 55, critical from 90
DocumentedTier(score) ==
    IF QLt(score, I(35)) THEN "low"
    ELSE IF QLt(score, I(55)) THEN "moderate"
    ELSE IF QLt(score, I(90)) THEN "high"
    ELSE "critical"

\* C2: the risk tier of a score is low if score < 35, moderate if
\* 35 <= score < 55, high if 55 <= score < 90, critical if score >= 90.
RiskTierAsDocumented ==
    pc = "risk_level" => ret = DocumentedTier(arg)

(***************************************************************************)
(* compute_assessment_score applied to every answer map over the catalog    *)
(***************************************************************************)
AnswerValues == 1..5

AllAnswerMaps == UNION {[D -> AnswerValues] : D \in SUBSET QIds}

ScoreAnswers ==
    /\ pc = "idle"
    /\ \E answers \in AllAnswerMaps :
           /\ arg' = answers
           /\ ret' = compute_assessment_score(answers)
    /\ pc' = "assessment_score"
    /\ UNCHANGED <<app, employee, assessments, work_logs, messages, WEIGHTS, RISK_THRESHOLDS,
                   result, alerts, prev, raised>>

SpecAssess == IdleInit /\ [][ScoreAnswers \/ Return]_vars

\* C4: for every answer map with values in 1..5 over any subset of the
\* catalog the assessment score is in [0, 100]; 5 on every burnout question
\* and 1 on every positive one gives 100; 1 on every burnout question and 5
\* on every positive one gives 0; no answer gives 0.
AssessmentScoreRange ==
    pc = "assessment_score" =>
        /\ QLe(I(0), ret) /\ QLe(ret, I(100))
        /\ arg = Profile(5, 1) => ret = I(100)
        /\ arg = Profile(1, 5) => ret = I(0)
        /\ DOMAIN arg = {} => ret = I(0)

\* the most burnt-out answers were scored, and scored 100
ScoredAllBurnout ==
    /\ pc = "assessment_score"
    /\ arg = Profile(5, 1)
    /\ ret = I(100)

(***************************************************************************)
(* Scoring calls one after another, on collections that change between      *)
(* them, with one earlier call kept for comparison                          *)
(***************************************************************************)
CallAssessmentSeqs ==
    {<<>>} \cup {<<[timestamp |-> 30, answers |-> a, response_times |-> t]>> :
                    a \in AnswerMaps, t \in {EmptyDict, [q \in QIds |-> Q(15, 10)]}}
CallWorkLogSeqs == SeqsUpTo(WorkLogs, 1)
CallMessageSeqs == SeqsUpTo(Messages, 1)

InitCalls ==
    /\ NoApp
    /\ employee \in Employees
    /\ assessments \in CallAssessmentSeqs
    /\ work_logs \in CallWorkLogSeqs
    /\ messages \in CallMessageSeqs
    /\ ModuleInit
    /\ LocalsInit

\* the next request finds other records in the store
ChangeInputs ==
    /\ pc = "idle"
    /\ assessments' \in CallAssessmentSeqs
    /\ work_logs' \in CallWorkLogSeqs
    /\ messages' \in CallMessageSeqs
    /\ UNCHANGED <<app, employee, WEIGHTS, RISK_THRESHOLDS, pc, result, alerts, prev, arg, ret,
                   raised>>

\* keep the call that just returned
Remember ==
    /\ pc = "scored"
    /\ ~raised
    /\ prev = <<>>
    /\ prev' = <<[employee_id |-> employee.id, assessments |-> assessments,
                  work_logs |-> work_logs, messages |-> messages, result |-> result,
                  other_since |-> FALSE]>>
    /\ UNCHANGED <<app, employee, assessments, work_logs, messages, WEIGHTS, RISK_THRESHOLDS,
                   pc, result, alerts, arg, ret, raised>>

NextCalls == Score \/ AnalyzeMessages \/ Return \/ ChangeInputs \/ Remember

SpecCalls == InitCalls /\ [][NextCalls]_vars

\* a scoring call returned and an earlier one is kept
TwoCalls == pc = "scored" /\ ~raised /\ prev # <<>>

\* C5: with the same work logs and messages, a latest assessment with a
\* higher or equal assessment score gives a higher or equal composite score.
CompositeMonotonic ==
    (/\ TwoCalls
     /\ prev[1].work_logs = work_logs
     /\ prev[1].messages = messages
     /\ prev[1].assessments # <<>>
     /\ assessments # <<>>
     /\ QLe(prev[1].result.breakdown.assessment.score, result.breakdown.assessment.score))
        => QLe(prev[1].result.composite_score, result.composite_score)

\* two calls on the same logs and messages, the second with a strictly
\* higher assessment score and a strictly higher composite
HigherAssessmentHigherComposite ==
    /\ TwoCalls
    /\ prev[1].work_logs = work_logs
    /\ prev[1].messages = messages
    /\ work_logs # <<>>
    /\ messages # <<>>
    /\ prev[1].assessments # <<>>
    /\ assessments # <<>>
    /\ QLt(prev[1].result.breakdown.assessment.score, result.breakdown.assessment.score)
    /\ QLt(prev[1].result.composite_score, result.composite_score)

\* C7: two scoring calls with the same employee id, assessments, work logs
\* and messages return the same result, every field equal, whatever calls
\* were made before or between them.
SameInputsSameResult ==
    (/\ TwoCalls
     /\ prev[1].employee_id = employee.id
     /\ prev[1].assessments = assessments
     /\ prev[1].work_logs = work_logs
     /\ prev[1].messages = messages)
        => result = prev[1].result

\* the same inputs were scored again after a call on other inputs
ScoredAgainAfterOtherCall ==
    /\ TwoCalls
    /\ prev[1].assessments = assessments
    /\ prev[1].work_logs = work_logs
    /\ prev[1].messages = messages
    /\ assessments # <<>>
    /\ prev[1].other_since


(***************************************************************************)
(* Ranges of the scores                                                    *)
(***************************************************************************)
InRange(x) == QLe(I(0), x) /\ QLe(x, I(100))

\* C11: every score of a compute_burnout_score result lies in [0, 100]: the
\* four sub-scores, composite_score and adjusted_score, also when the
\* suspicious branch takes the objective blend.
ScoresInRange ==
    Scored =>
        /\ InRange(result.breakdown.assessment.score)
        /\ InRange(result.breakdown.sentiment.score)
        /\ InRange(result.breakdown.work_pattern.score)
        /\ InRange(result.breakdown.productivity.score)
        /\ InRange(result.composite_score)
        /\ InRange(result.adjusted_score)

\* a suspicious result whose adjusted score is the objective blend, computed
\* from work logs whose raw factors lie outside [0, 100]
BlendOfSaturatedWorkScore ==
    /\ Scored
    /\ result.faking_detection.is_suspicious
    /\ QLt(result.composite_score, result.adjusted_score)
    /\ result.breakdown.work_pattern.score = I(100)


(***************************************************************************)
(* Alerts of one employee                                                  *)
(***************************************************************************)
Alerted == pc = "alerted" /\ ~raised

\* position of an alert type in the declaration order
TypeRank(t) ==
    CASE t = "burnout_risk" -> 1
      [] t = "faking_detected" -> 2
      [] t = "sentiment_decline" -> 3
      [] OTHER -> 4

HasAlert(t) == \E i \in 1..Len(alerts) : alerts[i].type = t

\* C12: generate_alerts returns, in this order and nothing else: a
\* burnout_risk alert of severity risk_level iff the risk level is high or
\* critical; a faking_detected alert of severity warning with the verdict's
\* reasons iff the verdict is suspicious; a sentiment_decline alert of
\* severity moderate iff the trend is declining; each type at most once.
AlertsInDeclarationOrder ==
    Alerted =>
        /\ \A i \in 1..Len(alerts) : TypeRank(alerts[i].type) <= 3
        /\ \A i, j \in 1..Len(alerts) :
               i < j => TypeRank(alerts[i].type) < TypeRank(alerts[j].type)
        /\ HasAlert("burnout_risk") <=> result.risk_level \in {"high", "critical"}
        /\ HasAlert("faking_detected") <=> result.faking_detection.is_suspicious
        /\ HasAlert("sentiment_decline") <=> result.sentiment_analysis.trend = "declining"
        /\ \A i \in 1..Len(alerts) :
               /\ alerts[i].type = "burnout_risk" => alerts[i].severity = result.risk_level
               /\ alerts[i].type = "faking_detected" =>
                      /\ alerts[i].severity = "warning"
                      /\ alerts[i].details = result.faking_detection.reasons
               /\ alerts[i].type = "sentiment_decline" => alerts[i].severity = "moderate"

\* all three alerts were generated for one result
ThreeAlerts == Alerted /\ Len(alerts) = 3


(***************************************************************************)
(* The store and the alert list of all employees (/api/alerts)              *)
(***************************************************************************)
\* d.get(key, default)
Get(d, key, default) == IF key \in DOMAIN d THEN d[key] ELSE default

\* DATA["employees"]: a dict keeps insertion order, here a sequence of records
StoreEmployees ==
    << [id |-> "E1", name |-> "Ana", role |-> "Engineer", department |-> "R&D",
        is_hr |-> FALSE, is_manager |-> FALSE],
       [id |-> "E2", name |-> "Bo", role |-> "HR Partner", department |-> "People",
        is_hr |-> TRUE, is_manager |-> FALSE] >>

EmployeeIds == {StoreEmployees[i].id : i \in 1..Len(StoreEmployees)}

\* an employee's records in the mock data: none, an exhausted employee who
\* answers fast, one who reports no burnout while overworked, and one whose
\* messages decline
StoredProfiles ==
    { [assessments |-> <<>>, work_logs |-> <<>>, messages |-> <<>>],
      [assessments |-> <<[timestamp |-> 0, answers |-> Profile(5, 1),
                          response_times |-> [q \in QIds |-> Q(15, 10)]]>>,
       work_logs |-> <<WorkLog(I(16), I(6), I(5), I(0), I(0), I(6), I(10))>>,
       messages |-> <<[content |-> "great", timestamp |-> 3],
                      [content |-> "terrible", timestamp |-> 12]>>],
      [assessments |-> <<[timestamp |-> 0, answers |-> Profile(1, 5),
                          response_times |-> EmptyDict]>>,
       work_logs |-> <<WorkLog(I(16), I(6), I(5), I(0), I(0), I(6), I(10))>>,
       messages |-> <<>>],
      [assessments |-> <<[timestamp |-> 0, answers |-> Profile(5, 1),
                          response_times |-> EmptyDict]>>,
       work_logs |-> <<>>,
       messages |-> <<[content |-> "great", timestamp |-> 3],
                      [content |-> "terrible", timestamp |-> 12]>>] }

\* a per-employee dict of the mock data: employees without records have no key
StoredLists(profiles, field) ==
    [id \in {e \in DOMAIN profiles : profiles[e][field] # <<>>} |-> profiles[id][field]]

StoreInit ==
    \E profiles \in [EmployeeIds -> StoredProfiles] :
        DATA = [employees |-> StoreEmployees,
                work_logs |-> StoredLists(profiles, "work_logs"),
                messages |-> StoredLists(profiles, "messages"),
                assessments |-> StoredLists(profiles, "assessments"),
                hr_actions |-> EmptyDict,
                peer_reports |-> <<>>,
                sessions |-> EmptyDict]

\* get_employee_burnout: the engine on the employee's records in the store
get_employee_burnout(emp_id) ==
    compute_burnout_score(emp_id, Get(DATA.assessments, emp_id, <<>>),
                          Get(DATA.work_logs, emp_id, <<>>),
                          Get(DATA.messages, emp_id, <<>>))

get_employee_burnout_raises(emp_id) ==
    compute_burnout_score_raises(Get(DATA.assessments, emp_id, <<>>),
                                 Get(DATA.work_logs, emp_id, <<>>),
                                 Get(DATA.messages, emp_id, <<>>))


severity_order == [critical |-> 0, high |-> 1, warning |-> 2, moderate |-> 3]

\* severity_order.get(x.get("severity", "moderate"), 4)
severity_key(alert) ==
    Get(severity_order, Get(alert, "severity", "moderate"), 4)

InsertBySeverity_unstable(sorted, alert) ==
    LET before == SelectSeq(sorted, LAMBDA a : severity_key(a) < severity_key(alert))
        after == SelectSeq(sorted, LAMBDA a : severity_key(a) >= severity_key(alert))
    IN  before \o <<alert>> \o after

\* list.sort is stable: an alert goes behind the alerts of the same key
InsertBySeverity(sorted, alert) ==
    LET before == SelectSeq(sorted, LAMBDA a : severity_key(a) <= severity_key(alert))
        after == SelectSeq(sorted, LAMBDA a : severity_key(a) > severity_key(alert))
    IN  before \o <<alert>> \o after

RECURSIVE SortBySeverity(_)
SortBySeverity(all_alerts) ==
    IF all_alerts = <<>> THEN <<>>
    ELSE InsertBySeverity(SortBySeverity(SubSeq(all_alerts, 1, Len(all_alerts) - 1)),
                          all_alerts[Len(all_alerts)])

\* the alert after the four assignments of the loop body
tagged_alert(alert, emp) ==
    [employee_id |-> emp.id, employee_name |-> emp.name, department |-> emp.department,
     timestamp |-> now] @@ alert

employee_alerts(emp) ==
    LET emp_alerts == generate_alerts(emp, get_employee_burnout(emp.id))
    IN  [i \in 1..Len(emp_alerts) |-> tagged_alert(emp_alerts[i], emp)]

\* all_alerts before the sort, over the first n employees of the store
RECURSIVE merged_alerts(_)
merged_alerts(n) ==
    IF n = 0 THEN <<>>
    ELSE merged_alerts(n - 1) \o employee_alerts(DATA.employees[n])

api_get_alerts_raises ==
    \E i \in 1..Len(DATA.employees) :
        \/ get_employee_burnout_raises(DATA.employees[i].id)
        \/ generate_alerts_raises(DATA.employees[i],
                                  get_employee_burnout(DATA.employees[i].id))

\* GET /api/alerts
ApiGetAlerts ==
    /\ pc = "idle"
    /\ raised' = api_get_alerts_raises
    /\ arg' = IF raised' THEN None ELSE merged_alerts(Len(DATA.employees))
    /\ ret' = IF raised' THEN None
              ELSE [alerts |-> SortBySeverity(arg'), total |-> Len(arg')]
    /\ pc' = "alerts_listed"
    /\ UNCHANGED <<app, employee, assessments, work_logs, messages, WEIGHTS,
                   RISK_THRESHOLDS, result, alerts, prev>>

MaxAlerts == 3

\* alerts of every known severity, of a severity the order does not know,
\* and without any severity
SortableAlerts ==
    {[type |-> "a", severity |-> s] : s \in {"critical", "high", "warning", "moderate", "info"}}
    \cup {[type |-> "b", severity |-> "warning"], [type |-> "c"]}

\* the sort of api_get_alerts on any list of alerts
SortAlerts ==
    /\ pc = "idle"
    /\ \E all_alerts \in SeqsUpTo(SortableAlerts, MaxAlerts) :
           /\ arg' = all_alerts
           /\ ret' = [alerts |-> SortBySeverity(all_alerts), total |-> Len(all_alerts)]
    /\ pc' = "alerts_sorted"
    /\ UNCHANGED <<app, employee, assessments, work_logs, messages, WEIGHTS,
                   RISK_THRESHOLDS, result, alerts, prev, raised>>

InitAlerts ==
    /\ StoreInit
    /\ requests = EmptyDict
    /\ session = EmptyDict
    /\ now = 0
    /\ employee \in Employees
    /\ assessments = <<>>
    /\ work_logs = <<>>
    /\ messages = <<>>
    /\ ModuleInit
    /\ LocalsInit

SpecAlerts == InitAlerts /\ [][ApiGetAlerts \/ SortAlerts \/ Return]_vars

\* priority of an alert in the order critical, high, warning, moderate, unknown
Priority(alert) ==
    IF "severity" \notin DOMAIN alert THEN 3
    ELSE CASE alert.severity = "critical" -> 0
           [] alert.severity = "high" -> 1
           [] alert.severity = "warning" -> 2
           [] alert.severity = "moderate" -> 3
           [] OTHER -> 4

OfPriority(list, k) == SelectSeq(list, LAMBDA a : Priority(a) = k)

\* position of an employee in the store
EmployeeRank(id) == CHOOSE i \in 1..Len(DATA.employees) : DATA.employees[i].id = id

\* C13: the alert list of /api/alerts is ordered critical, high, warning,
\* moderate, unknown last; no alert precedes one of strictly higher priority;
\* alerts of equal severity keep their generation order (employee iteration
\* order, then declaration order).
AlertsBySeverity ==
    (pc \in {"alerts_listed", "alerts_sorted"} /\ ~raised) =>
        /\ ret.total = Len(arg)
        /\ Len(ret.alerts) = Len(arg)
        /\ \A i, j \in 1..Len(ret.alerts) :
               i < j => Priority(ret.alerts[i]) <= Priority(ret.alerts[j])
        /\ \A k \in 0..4 : OfPriority(ret.alerts, k) = OfPriority(arg, k)
        /\ pc = "alerts_listed" =>
               \A i, j \in 1..Len(arg) :
                   i < j =>
                       \/ EmployeeRank(arg[i].employee_id) < EmployeeRank(arg[j].employee_id)
                       \/ /\ arg[i].employee_id = arg[j].employee_id
                          /\ TypeRank(arg[i].type) < TypeRank(arg[j].type)

\* the sort moved an alert of a later employee ahead, and left two alerts of
\* equal severity of different employees in employee order
SortedAcrossEmployees ==
    /\ pc = "alerts_listed"
    /\ ~raised
    /\ arg # ret.alerts
    /\ \E i, j \in 1..Len(ret.alerts) :
           /\ i < j
           /\ ret.alerts[i].severity = ret.alerts[j].severity
           /\ ret.alerts[i].employee_id # ret.alerts[j].employee_id


(***************************************************************************)
(* The faking verdict                                                      *)
(***************************************************************************)
\* a scoring call on a non-empty assessment list returned
Measured == Scored /\ assessments # <<>>

\* the checks that trigger on the inputs of the scoring call
TriggeredChecks ==
    LET latest == LatestOf(assessments)
        answers == GetOrEmpty(latest, "answers")
        rt == response_time_checks(GetOrEmpty(latest, "response_times"))
        assessment_score == compute_assessment_score(answers)
    IN  {c \in {"fast_response", "uniform_response_times", "work_data_gap",
                "sentiment_gap", "pattern_response"} :
            \/ c = "fast_response" /\ rt.fast
            \/ c = "uniform_response_times" /\ rt.uniform
            \/ c = "work_data_gap" /\ work_gap_check(assessment_score, work_logs)
            \/ c = "sentiment_gap"
               /\ sentiment_gap_check(assessment_score, result.sentiment_analysis)
            \/ c = "pattern_response" /\ pattern_check(answers)}

CheckWeight(c) ==
    CASE c = "fast_response" -> Q(30, 100)
      [] c = "uniform_response_times" -> Q(20, 100)
      [] c = "work_data_gap" -> Q(30, 100)
      [] c = "sentiment_gap" -> Q(20, 100)
      [] c = "pattern_response" -> Q(15, 100)

RECURSIVE TotalWeight(_)
TotalWeight(checks) ==
    IF checks = {} THEN I(0)
    ELSE LET c == CHOOSE x \in checks : TRUE
         IN  QAdd(CheckWeight(c), TotalWeight(checks \ {c}))

\* C14: the verdict is determined by the set of checks that trigger:
\* is_suspicious iff the sum of their weights is >= 0.3, confidence is
\* min(1.0, that sum), and reasons holds exactly one entry per triggered
\* check, also for checks after the threshold was reached.
VerdictFromTriggeredChecks ==
    Measured =>
        LET verdict == result.faking_detection
            total == TotalWeight(TriggeredChecks)
        IN  /\ Range(verdict.reasons) = TriggeredChecks
            /\ Len(verdict.reasons) = Cardinality(TriggeredChecks)
            /\ verdict.is_suspicious <=> QLe(Q(3, 10), total)
            /\ verdict.confidence = QMin(I(1), total)

\* all five checks fired: the sum 1.15 is capped at 1.0
AllChecksFired ==
    /\ Measured
    /\ Len(result.faking_detection.reasons) = 5
    /\ result.faking_detection.confidence = I(1)


\* C15: the work-data check adds suspicion only if work logs exist and
\* work_score - assessment_score > 40; the sentiment check only if messages
\* exist and sentiment_score - assessment_score > 35; a self-report at or
\* above the objective score triggers neither, however large the gap.
GapChecksOneDirectional ==
    Measured =>
        LET reasons == Range(result.faking_detection.reasons)
            assessment_score == result.breakdown.assessment.score
            work_score == result.breakdown.work_pattern.score
            sentiment_score == result.breakdown.sentiment.score
        IN  /\ "work_data_gap" \in reasons <=>
                   /\ work_logs # <<>>
                   /\ QLt(I(40), QSub(work_score, assessment_score))
            /\ "sentiment_gap" \in reasons <=>
                   /\ messages # <<>>
                   /\ QLt(I(35), QSub(sentiment_score, assessment_score))
            /\ QLe(work_score, assessment_score) => "work_data_gap" \notin reasons
            /\ QLe(sentiment_score, assessment_score) => "sentiment_gap" \notin reasons

\* a self-report far above both objective scores, and neither check fired
OverstatedSelfReport ==
    /\ Measured
    /\ work_logs # <<>>
    /\ messages # <<>>
    /\ QLt(I(40), QSub(result.breakdown.assessment.score,
                       result.breakdown.work_pattern.score))
    /\ QLt(I(35), QSub(result.breakdown.assessment.score,
                       result.breakdown.sentiment.score))
    /\ "work_data_gap" \notin Range(result.faking_detection.reasons)
    /\ "sentiment_gap" \notin Range(result.faking_detection.reasons)


(***************************************************************************)
(* Recommendations of a burnout_risk alert                                 *)
(***************************************************************************)
ActionRank(a) ==
    CASE a = "reduce_workload" -> 1
      [] a = "enforce_time_off" -> 2
      [] a = "schedule_1on1" -> 3
      [] a = "counseling_referral" -> 4
      [] a = "task_redistribution" -> 5
      [] a = "immediate_intervention" -> 6
      [] OTHER -> 7

\* C16: the recommendations of a burnout_risk alert are, in this order:
\* reduce_workload and enforce_time_off iff work_pattern score > 60;
\* schedule_1on1 iff sentiment score > 60; counseling_referral iff assessment
\* score > 70; task_redistribution iff productivity score > 60;
\* immediate_intervention iff adjusted score >= 90, that is iff the alert's
\* severity is critical.
RecommendationsInOrder ==
    Alerted =>
        \A n \in 1..Len(alerts) :
            alerts[n].type = "burnout_risk" =>
                LET recs == alerts[n].recommended_actions
                    actions == {recs[i].action : i \in 1..Len(recs)}
                    breakdown == result.breakdown
                IN  /\ \A i \in 1..Len(recs) : ActionRank(recs[i].action) <= 6
                    /\ \A i, j \in 1..Len(recs) :
                           i < j => ActionRank(recs[i].action) < ActionRank(recs[j].action)
                    /\ "reduce_workload" \in actions
                           <=> QLt(I(60), breakdown.work_pattern.score)
                    /\ "enforce_time_off" \in actions
                           <=> QLt(I(60), breakdown.work_pattern.score)
                    /\ "schedule_1on1" \in actions <=> QLt(I(60), breakdown.sentiment.score)
                    /\ "counseling_referral" \in actions
                           <=> QLt(I(70), breakdown.assessment.score)
                    /\ "task_redistribution" \in actions
                           <=> QLt(I(60), breakdown.productivity.score)
                    /\ "immediate_intervention" \in actions
                           <=> QLe(I(90), result.adjusted_score)
                    /\ "immediate_intervention" \in actions
                           <=> alerts[n].severity = "critical"

\* a critical alert with five recommendations, the last one the intervention
CriticalAlertRecommendsIntervention ==
    /\ Alerted
    /\ Len(alerts) >= 1
    /\ alerts[1].type = "burnout_risk"
    /\ alerts[1].severity = "critical"
    /\ Len(alerts[1].recommended_actions) = 5
    /\ alerts[1].recommended_actions[5].action = "immediate_intervention"


(***************************************************************************)
(* analyze_messages on message lists of every order, with equal timestamps  *)
(***************************************************************************)
MaxTrendMsgs == 4

\* positive, negative and neutral texts on two days
TrendMessages ==
    {[content |-> c, timestamp |-> t] : c \in {"great", "hate", "ok"}, t \in {1, 2}}

InitSentiment ==
    /\ NoApp
    /\ employee \in Employees
    /\ assessments = <<>>
    /\ work_logs = <<>>
    /\ messages \in SeqsUpTo(TrendMessages, MaxTrendMsgs)
    /\ ModuleInit
    /\ LocalsInit

SpecSentiment == InitSentiment /\ [][AnalyzeMessages \/ Return]_vars

\* analyze_messages returned a summary of at least one message
Analyzed == pc = "analyzed" /\ ~raised /\ messages # <<>>

\* second-half mean minus first-half mean of p split at mid
HalvesDiff(p, mid) ==
    QSub(QDiv(QSum(SubSeq(p, mid + 1, Len(p))), I(Len(p) - mid)),
         QDiv(QSum(SubSeq(p, 1, mid)), I(mid)))

\* C17: with p the polarities of the n >= 1 messages in ascending timestamp
\* order and mid = n \div 2, the trend is stable if mid = 0, else declining
\* iff mean(p[mid..n-1]) - mean(p[0..mid-1]) < -0.15, improving iff it is
\* > 0.15, stable otherwise; [0.8, 0.8, -0.8, -0.8] gives declining.
TrendFromMidpointSplit ==
    Analyzed =>
        LET sorted == ret.messages
            n == Len(sorted)
            p == [i \in 1..n |-> sorted[i].polarity]
            mid == n \div 2
        IN  /\ n = Len(messages)
            /\ \A i, j \in 1..n : i < j => sorted[i].timestamp <= sorted[j].timestamp
            /\ mid = 0 => ret.trend = "stable"
            /\ mid > 0 =>
                   /\ ret.trend = "declining" <=> QLt(HalvesDiff(p, mid), Q(-15, 100))
                   /\ ret.trend = "improving" <=> QLt(Q(15, 100), HalvesDiff(p, mid))
                   /\ ret.trend \in {"declining", "improving", "stable"}
            /\ p = <<Q(8, 10), Q(8, 10), Q(-8, 10), Q(-8, 10)>> => ret.trend = "declining"

\* three messages whose middle one decides the trend: with it in the second
\* half the means are 0.8 and 0, the trend is declining
MiddleMessageInSecondHalf ==
    /\ Analyzed
    /\ Len(ret.messages) = 3
    /\ [i \in 1..3 |-> ret.messages[i].polarity] = <<Q(8, 10), Q(-8, 10), Q(8, 10)>>
    /\ ret.trend = "declining"


\* every order in which the same messages can be supplied
Orderings(seq) ==
    {[i \in 1..Len(seq) |-> seq[f[i]]] :
        f \in {g \in [1..Len(seq) -> 1..Len(seq)] : Range(g) = 1..Len(seq)}}

\* C18: the summary does not depend on the order in which the messages are
\* supplied: every permutation of the list gives the same trend,
\* average_polarity, counts and ordered messages list, also when two
\* messages carry the same timestamp.
SummaryIndependentOfOrder ==
    Analyzed =>
        \A supplied \in Orderings(messages) :
            LET other == analyze_messages(supplied)
            IN  /\ other.trend = ret.trend
                /\ other.average_polarity = ret.average_polarity
                /\ other.positive_count = ret.positive_count
                /\ other.neutral_count = ret.neutral_count
                /\ other.negative_count = ret.negative_count
                /\ other.messages = ret.messages


(***************************************************************************)
(* The requests that write the store: login, logout, the assessment form   *)
(* and /api/assessment/submit                                               *)
(***************************************************************************)
\* the employee ids a client sends, as typed
SentIds == {"", "  ", " e1 ", "E2", "E9"}

\* str.strip().upper()
StripUpper(s) ==
    CASE s = "  " -> ""
      [] s = " e1 " -> "E1"
      [] OTHER -> s

\* DATA["employees"].get(emp_id)
employees_get(emp_id) ==
    IF \E i \in 1..Len(DATA.employees) : DATA.employees[i].id = emp_id
    THEN DATA.employees[CHOOSE i \in 1..Len(DATA.employees) : DATA.employees[i].id = emp_id]
    ELSE EmptyDict

\* POST /login
Login ==
    /\ pc = "idle"
    /\ \E sent \in SentIds :
           LET emp_id == StripUpper(sent)
               emp == employees_get(emp_id)
           IN  IF emp_id = ""
               THEN /\ ret' = [status |-> 200, error |-> "Please enter your Employee ID."]
                    /\ UNCHANGED <<DATA, session>>
               ELSE IF emp = EmptyDict
               THEN /\ ret' = [status |-> 200, error |-> "Employee not found."]
                    /\ UNCHANGED <<DATA, session>>
               ELSE /\ session' = [emp_id |-> emp_id,
                                   is_hr |-> Get(emp, "is_hr", FALSE),
                                   is_manager |-> Get(emp, "is_manager", FALSE)] @@ session
                    /\ DATA' = [DATA EXCEPT !.sessions = [e \in {emp_id} |-> now] @@ @]
                    /\ ret' = [status |-> 302,
                               location |-> IF Get(emp, "is_hr", FALSE) THEN "hr_dashboard"
                                            ELSE "dashboard"]
    /\ pc' = "responded"
    /\ UNCHANGED <<requests, now, employee, assessments, work_logs, messages, WEIGHTS,
                   RISK_THRESHOLDS, result, alerts, prev, arg, raised>>

\* GET /logout
Logout ==
    /\ pc = "idle"
    /\ session' = EmptyDict
    /\ ret' = [status |-> 302, location |-> "login"]
    /\ pc' = "responded"
    /\ UNCHANGED <<DATA, requests, now, employee, assessments, work_logs, messages, WEIGHTS,
                   RISK_THRESHOLDS, result, alerts, prev, arg, raised>>

\* the text of a form field
FormValues == {"3", "9", "abc"}

\* int(val): ValueError on text that is no number
int_raises(val) == val \notin {"3", "9"}

int(val) == CASE val = "3" -> 3 [] val = "9" -> 9

\* the posted forms: the first question has any text or is left out, or the
\* second is left out; the other questions have "3"
SubmittedForms ==
    {form \in UNION {[D -> FormValues] : D \in {QIds, QIds \ {"q1"}, QIds \ {"q2"}}} :
        \A q \in DOMAIN form \ {"q1"} : form[q] = "3"}

\* the number of records the store may hold
MaxStored == 3

\* the minutes at which requests arrive
Minutes == {0, 1}

\* the number of assessments stored for the first n employees
RECURSIVE StoredCount(_)
StoredCount(n) ==
    IF n = 0 THEN 0
    ELSE StoredCount(n - 1) + Len(Get(DATA.assessments, DATA.employees[n].id, <<>>))

\* the number of HR actions stored for the first n employees
RECURSIVE HrActionCount(_)
HrActionCount(n) ==
    IF n = 0 THEN 0
    ELSE HrActionCount(n - 1) + Len(Get(DATA.hr_actions, DATA.employees[n].id, <<>>))

\* all records in the store
RecordCount ==
    StoredCount(Len(DATA.employees)) + Len(DATA.peer_reports)
        + HrActionCount(Len(DATA.employees))

\* str(uuid.uuid4())[:8]: an id no stored record has (two random ids that
\* collide are left out)
uuid4 == StoredCount(Len(DATA.employees)) + 1

store_append_fresh_list(store, emp_id, record) ==
    [e \in DOMAIN store \cup {emp_id} |-> IF e = emp_id THEN <<record>> ELSE store[e]]

\* if emp_id not in DATA["assessments"]: DATA["assessments"][emp_id] = []
\* DATA["assessments"][emp_id].append(assessment_record)
store_append(store, emp_id, record) ==
    [e \in DOMAIN store \cup {emp_id} |->
        IF e = emp_id THEN Append(Get(store, emp_id, <<>>), record) ELSE store[e]]

assessment_record(emp_id, answers, response_times) ==
    [id |-> uuid4, employee_id |-> emp_id, timestamp |-> now, answers |-> answers,
     response_times |-> response_times, is_fake_attempt |-> FALSE]

\* the position in the catalog of the first question the loop stops at: its
\* field is missing or is no number; 0 when the loop completes
first_stop(form) ==
    LET stops == {i \in 1..Len(ASSESSMENT_QUESTIONS) :
                     \/ ASSESSMENT_QUESTIONS[i].id \notin DOMAIN form
                     \/ int_raises(form[ASSESSMENT_QUESTIONS[i].id])}
    IN  IF stops = {} THEN 0 ELSE CHOOSE i \in stops : \A j \in stops : i <= j

\* get_employee_burnout(emp_id) as the handler calls it, the record stored
burnout_with(record) ==
    compute_burnout_score(record.employee_id,
        store_append(DATA.assessments, record.employee_id, record)[record.employee_id],
        Get(DATA.work_logs, record.employee_id, <<>>),
        Get(DATA.messages, record.employee_id, <<>>))

burnout_with_raises(record) ==
    compute_burnout_score_raises(
        store_append(DATA.assessments, record.employee_id, record)[record.employee_id],
        Get(DATA.work_logs, record.employee_id, <<>>),
        Get(DATA.messages, record.employee_id, <<>>))

\* the request is stored and scored: the tail of both submission handlers
StoreAndScore(record) ==
    /\ DATA' = [DATA EXCEPT !.assessments = store_append(@, record.employee_id, record)]
    /\ arg' = record
    /\ raised' = burnout_with_raises(record)
    /\ pc' = "stored"

\* the response of the form handler once the record is stored
assessment_result(record, burnout_raised) ==
    IF burnout_raised THEN None
    ELSE [status |-> 200, burnout |-> burnout_with(record),
          employee |-> employees_get(record.employee_id)]

\* the body of the form handler, the session logged in as emp_id
assessment(emp_id, form, stop) ==
    IF employees_get(emp_id) = EmptyDict
    THEN /\ raised' = TRUE
         /\ ret' = None
         /\ pc' = "responded"
         /\ UNCHANGED <<DATA, arg>>
    ELSE IF stop # 0
    THEN /\ raised' = (ASSESSMENT_QUESTIONS[stop].id \in DOMAIN form)
         /\ ret' = IF raised' THEN None
                   ELSE [status |-> 200, error |-> "Please answer all questions."]
         /\ pc' = "responded"
         /\ UNCHANGED <<DATA, arg>>
    ELSE /\ RecordCount < MaxStored
         /\ StoreAndScore(assessment_record(emp_id, [q \in QIds |-> int(form[q])], EmptyDict))
         /\ ret' = assessment_result(arg', raised')

\* POST /assessment
AssessmentPost ==
    /\ pc = "idle"
    /\ UNCHANGED <<requests, session, now, employee, assessments, work_logs, messages, WEIGHTS,
                   RISK_THRESHOLDS, result, alerts, prev>>
    /\ \E form \in SubmittedForms :
           IF "emp_id" \notin DOMAIN session
           THEN /\ ret' = [status |-> 302, location |-> "login"]
                /\ pc' = "responded"
                /\ UNCHANGED <<DATA, arg, raised>>
           ELSE assessment(session.emp_id, form, first_stop(form))

\* a JSON value of the request body
JsonInt(n) == [type |-> "int", value |-> n]

JsonStr(s) == [type |-> "str", value |-> s]

\* JSON true: in Python an instance of int that equals 1
JsonTrue == [type |-> "bool", value |-> 1]

\* isinstance(value, int)
isinstance_int(value) == value.type \in {"int", "bool"}

\* the answers of a request body: none, one per question, one question with
\* a value that is out of range, no integer, or true, and one question left out
SentAnswers ==
    {EmptyDict, [q \in QIds \ {"q5"} |-> JsonInt(3)]}
    \cup {[q \in QIds |-> IF q = "q1" THEN v ELSE JsonInt(3)] :
             v \in {JsonInt(3), JsonInt(0), JsonInt(6), JsonStr("3"), JsonTrue}}

\* an error response of the API: nothing is stored
api_error(status, text) ==
    /\ ret' = [status |-> status, error |-> text]
    /\ pc' = "responded"
    /\ UNCHANGED <<DATA, arg, raised>>

\* the JSON response once the record is stored
api_success(record, emp, burnout, burnout_raised) ==
    IF burnout_raised THEN None
    ELSE [status |-> 200, success |-> TRUE,
          assessment_id |-> record.id,
          burnout_score |-> burnout.adjusted_score,
          risk_level |-> burnout.risk_level,
          breakdown |-> burnout.breakdown,
          faking_detection |-> burnout.faking_detection,
          alerts_generated |-> Len(generate_alerts(emp, burnout))]

api_submit_assessment_storing_before_catalog_check(emp_id, emp, answers) ==
    IF emp_id = "" THEN api_error(400, "Employee ID is required")
    ELSE IF emp = EmptyDict THEN api_error(404, "Employee not found")
    ELSE IF answers = EmptyDict THEN api_error(400, "Answers are required")
    ELSE IF \E q \in DOMAIN answers :
               \/ ~isinstance_int(answers[q])
               \/ answers[q].value < 1
               \/ answers[q].value > 5
    THEN api_error(400, "Answer must be an integer between 1 and 5")
    ELSE IF QIds \ DOMAIN answers # {}
    THEN /\ StoredCount(Len(DATA.employees)) < MaxStored
         /\ DATA' = [DATA EXCEPT !.assessments =
                        store_append(@, emp_id,
                            assessment_record(emp_id,
                                [q \in DOMAIN answers |-> answers[q].value], EmptyDict))]
         /\ ret' = [status |-> 400, error |-> "Missing answers"]
         /\ pc' = "responded"
         /\ UNCHANGED <<arg, raised>>
    ELSE /\ StoredCount(Len(DATA.employees)) < MaxStored
         /\ StoreAndScore(assessment_record(emp_id,
                              [q \in DOMAIN answers |-> answers[q].value], EmptyDict))
         /\ ret' = api_success(arg', emp, IF raised' THEN None ELSE burnout_with(arg'),
                               raised')

api_submit_assessment(emp_id, emp, answers) ==
    IF emp_id = "" THEN api_error(400, "Employee ID is required")
    ELSE IF emp = EmptyDict THEN api_error(404, "Employee not found")
    ELSE IF answers = EmptyDict THEN api_error(400, "Answers are required")
    ELSE IF \E q \in DOMAIN answers :
               \/ ~isinstance_int(answers[q])
               \/ answers[q].value < 1
               \/ answers[q].value > 5
    THEN api_error(400, "Answer must be an integer between 1 and 5")
    ELSE IF QIds \ DOMAIN answers # {} THEN api_error(400, "Missing answers")
    ELSE /\ StoredCount(Len(DATA.employees)) < MaxStored
         /\ StoreAndScore(assessment_record(emp_id,
                              [q \in DOMAIN answers |-> answers[q].value], EmptyDict))
         /\ ret' = api_success(arg', emp, IF raised' THEN None ELSE burnout_with(arg'),
                               raised')

\* POST /api/assessment/submit
ApiSubmitAssessment ==
    /\ pc = "idle"
    /\ UNCHANGED <<requests, session, now, employee, assessments, work_logs, messages, WEIGHTS,
                   RISK_THRESHOLDS, result, alerts, prev>>
    /\ \E sent \in SentIds, answers \in SentAnswers :
           api_submit_assessment(StripUpper(sent), employees_get(StripUpper(sent)), answers)

\* datetime.now(): a minute passes
Tick ==
    /\ pc = "idle"
    /\ now + 1 \in Minutes
    /\ now' = now + 1
    /\ UNCHANGED <<DATA, requests, session, employee, assessments, work_logs, messages, WEIGHTS,
                   RISK_THRESHOLDS, pc, result, alerts, prev, arg, ret, raised>>

\* the store at start: the first employee has one assessment and work logs,
\* the second has no records
AppStoreInit ==
    \E profiles \in [EmployeeIds -> StoredProfiles] :
        /\ profiles["E1"].assessments # <<>>
        /\ profiles["E1"].messages = <<>>
        /\ profiles["E2"].assessments = <<>>
        /\ DATA = [employees |-> StoreEmployees,
                   work_logs |-> StoredLists(profiles, "work_logs"),
                   messages |-> StoredLists(profiles, "messages"),
                   assessments |-> StoredLists(profiles, "assessments"),
                   hr_actions |-> EmptyDict,
                   peer_reports |-> <<>>,
                   sessions |-> EmptyDict]

InitApp ==
    /\ AppStoreInit
    /\ requests = EmptyDict
    /\ session = EmptyDict
    /\ now = 0
    /\ employee \in Employees
    /\ assessments = <<>>
    /\ work_logs = <<>>
    /\ messages = <<>>
    /\ ModuleInit
    /\ LocalsInit

NextApp == Login \/ Logout \/ AssessmentPost \/ ApiSubmitAssessment \/ Tick \/ Return

SpecApp == InitApp /\ [][NextApp]_vars

\* C19: every answer value of every assessment in the store is an integer
\* in 1..5, whichever entry point stored it
StoredAnswersInRange ==
    \A e \in DOMAIN DATA.assessments :
        \A i \in 1..Len(DATA.assessments[e]) :
            \A q \in DOMAIN DATA.assessments[e][i].answers :
                DATA.assessments[e][i].answers[q] \in 1..5


\* the employees whose stored list differs between the two stores
ChangedLists(old, new) ==
    {e \in DOMAIN old \cup DOMAIN new : Get(old, e, <<>>) # Get(new, e, <<>>)}

\* the new list is the old one with exactly one record added at the end
OneAppended(old, new) ==
    /\ Len(new) = Len(old) + 1
    /\ SubSeq(new, 1, Len(old)) = old

TierRank(risk_level) ==
    CASE risk_level = "low" -> 0
      [] risk_level = "moderate" -> 1
      [] risk_level = "high" -> 2
      [] risk_level = "critical" -> 3

\* every whole score
WholeScores == {I(k) : k \in 0..100}

\* C25: the tier does not fall when the score rises (compared here between
\* the two scores of a result and every whole score); the reported risk
\* level of every result is at least the tier of its composite score; and a
\* result whose verdict is not suspicious has adjusted_score equal to
\* composite_score and the tier of the composite score.
TierNeverLowered ==
    Scored =>
        /\ \A score \in WholeScores \cup {result.composite_score} :
               /\ QLe(score, result.adjusted_score) =>
                      TierRank(_get_risk_level(score))
                          <= TierRank(_get_risk_level(result.adjusted_score))
               /\ QLe(result.adjusted_score, score) =>
                      TierRank(_get_risk_level(result.adjusted_score))
                          <= TierRank(_get_risk_level(score))
        /\ TierRank(_get_risk_level(result.composite_score)) <= TierRank(result.risk_level)
        /\ ~result.faking_detection.is_suspicious =>
               /\ result.adjusted_score = result.composite_score
               /\ result.risk_level = _get_risk_level(result.composite_score)

\* the verdict is suspicious and the adjustment lifted the result into a
\* higher tier than its composite score has
AdjustmentRaisedTier ==
    /\ Scored
    /\ result.faking_detection.is_suspicious
    /\ TierRank(_get_risk_level(result.composite_score)) < TierRank(result.risk_level)


(***************************************************************************)
(* Rejected submissions                                                     *)
(***************************************************************************)
\* the error texts of the two submission handlers
SubmissionErrors ==
    {"Employee ID is required", "Employee not found", "Answers are required",
     "Answer must be an integer between 1 and 5", "Missing answers",
     "Please answer all questions."}

\* the request just answered was a submission that was rejected
Rejected(response, exception) ==
    IF exception THEN FALSE
    ELSE /\ "error" \in DOMAIN response
         /\ response.error \in SubmissionErrors

\* C23: a step in which /api/assessment/submit answers with an error (no
\* employee id, unknown employee, no answers, an answer that is no integer in
\* 1..5, a catalog question without answer) or the /assessment form is
\* rejected for an unanswered question leaves the stored assessments of every
\* employee as they were.
RejectedSubmissionChangesNothing ==
    [][ (pc = "idle" /\ pc' = "responded" /\ Rejected(ret', raised')) =>
            DATA'.assessments = DATA.assessments ]_vars

\* a submission that leaves out a catalog question was rejected by the API
\* when the store already held a submitted assessment
RejectedAfterAcceptedSubmission ==
    /\ pc = "responded"
    /\ Rejected(ret, raised)
    /\ ret.error = "Missing answers"
    /\ StoredCount(Len(DATA.employees)) > 1


(***************************************************************************)
(* The page routes behind login_required and hr_required.  flash() is part  *)
(* of the response here; session holds the keys the handlers read.          *)
(***************************************************************************)
\* login_required: "login" when the decorator redirects, "view" when it
\* calls the view
login_required(sess) ==
    IF "emp_id" \notin DOMAIN sess THEN "login" ELSE "view"

hr_required_any_employee(sess) == login_required(sess)

\* hr_required
hr_required(sess) ==
    IF "emp_id" \notin DOMAIN sess THEN "login"
    ELSE IF ~Get(sess, "is_hr", FALSE) THEN "dashboard"
    ELSE "view"

\* redirect(url_for(location)), with the message flashed before it
redirect(location, flashed) ==
    /\ ret' = [status |-> 302, location |-> location, flash |-> flashed]
    /\ pc' = "responded"

\* the page peer_report.html
peer_report_page(error, success) ==
    /\ ret' = [status |-> 200, error |-> error, success |-> success]
    /\ pc' = "responded"

\* the body of peer_report for a POST, the session logged in as emp_id
peer_report(emp_id, reporter, reported_id, reported, concern_type, description, anonymous) ==
    IF reported_id = ""
    THEN peer_report_page("Please select a colleague.", FALSE) /\ UNCHANGED DATA
    ELSE IF reported = EmptyDict
    THEN peer_report_page("Selected colleague not found.", FALSE) /\ UNCHANGED DATA
    ELSE IF description = ""
    THEN peer_report_page("Please describe your concern.", FALSE) /\ UNCHANGED DATA
    ELSE /\ RecordCount < MaxStored
         /\ DATA' = [DATA EXCEPT !.peer_reports = Append(@,
                [id |-> RecordCount + 1,
                 reporter_id |-> IF anonymous THEN "anonymous" ELSE emp_id,
                 reporter_name |-> IF anonymous THEN "Anonymous" ELSE reporter.name,
                 reported_employee_id |-> reported_id,
                 reported_employee_name |-> reported.name,
                 reported_department |-> reported.department,
                 concern_type |->
                     IF concern_type \in {"workload", "burnout", "behavior_change",
                                          "health", "other"}
                     THEN concern_type ELSE "other",
                 description |-> description,
                 timestamp |-> now,
                 status |-> "pending",
                 anonymous |-> anonymous])]
         /\ peer_report_page(None, TRUE)

\* POST /peer-report
PeerReportPost ==
    /\ pc = "idle"
    /\ UNCHANGED <<requests, session, now, employee, assessments, work_logs, messages, WEIGHTS,
                   RISK_THRESHOLDS, result, alerts, prev, arg>>
    /\ \E sent \in SentIds, description \in {"", "tired"}, anonymous \in BOOLEAN :
           IF login_required(session) = "login"
           THEN redirect("login", None) /\ UNCHANGED <<DATA, raised>>
           ELSE IF employees_get(session.emp_id) = EmptyDict
           THEN /\ raised' = TRUE
                /\ ret' = None
                /\ pc' = "responded"
                /\ UNCHANGED DATA
           ELSE /\ peer_report(session.emp_id, employees_get(session.emp_id),
                               StripUpper(sent), employees_get(StripUpper(sent)),
                               "gossip", description, anonymous)
                /\ UNCHANGED raised

\* the dict hr_action stores
hr_action_record(emp_id, emp, action_type, details) ==
    [id |-> RecordCount + 1, employee_id |-> emp_id, employee_name |-> emp.name,
     action_type |-> action_type, details |-> details,
     hr_manager_id |-> Get(session, "emp_id", ""), timestamp |-> now, status |-> "active"]

\* the body of hr_action
hr_action(emp_id, emp, action_type, details) ==
    IF emp = EmptyDict
    THEN redirect("hr_dashboard", "Employee not found.") /\ UNCHANGED DATA
    ELSE IF details = ""
    THEN redirect("hr_employee_detail", "Please provide action details.") /\ UNCHANGED DATA
    ELSE /\ RecordCount < MaxStored
         /\ DATA' = [DATA EXCEPT !.hr_actions =
                        store_append(@, emp_id,
                                     hr_action_record(emp_id, emp, action_type, details))]
         /\ redirect("hr_employee_detail", "Action recorded.")

\* POST /hr/action
HrActionPost ==
    /\ pc = "idle"
    /\ UNCHANGED <<requests, session, now, employee, assessments, work_logs, messages, WEIGHTS,
                   RISK_THRESHOLDS, result, alerts, prev, arg, raised>>
    /\ \E sent \in SentIds, details \in {"", "talk"} :
           IF hr_required(session) = "login"
           THEN redirect("login", None) /\ UNCHANGED DATA
           ELSE IF hr_required(session) = "dashboard"
           THEN redirect("dashboard", "Access denied. HR credentials required.")
                /\ UNCHANGED DATA
           ELSE hr_action(StripUpper(sent), employees_get(StripUpper(sent)),
                          "counseling", details)

NextPages == Login \/ Logout \/ AssessmentPost \/ PeerReportPost \/ HrActionPost \/ Return

SpecPages == InitApp /\ [][NextPages]_vars


\* the response is a redirect to the location
RedirectedTo(response, exception, location) ==
    IF exception THEN FALSE
    ELSE "location" \in DOMAIN response /\ response.location = location

\* the response is the login page with an error
LoginFailed(response, exception) ==
    IF exception THEN FALSE
    ELSE /\ "error" \in DOMAIN response
         /\ response.error \in {"Please enter your Employee ID.", "Employee not found."}

\* the session is that of an employee of the store who logged in
LoggedInAs(sess, emp) ==
    /\ emp # EmptyDict
    /\ sess = [emp_id |-> emp.id, is_hr |-> emp.is_hr, is_manager |-> emp.is_manager]

\* C24: over every sequence of logins, logouts and page requests
\*  - the session is empty or that of an existing employee, it becomes the
\*    session of an employee only in a login that succeeds, and a logout
\*    leaves it empty;
\*  - a step that stores an assessment, a peer report or an HR action is
\*    taken in the session of an existing employee, and for an HR action
\*    that employee is HR;
\*  - a request in an empty session writes nothing, and unless it is a login
\*    it is answered with a redirect to login;
\*  - a login that fails leaves the session as it was.
SessionGating ==
    [][ /\ session' # session =>
               \/ session' = EmptyDict
               \/ /\ \/ RedirectedTo(ret', raised', "dashboard")
                     \/ RedirectedTo(ret', raised', "hr_dashboard")
                  /\ \E i \in 1..Len(DATA.employees) : LoggedInAs(session', DATA.employees[i])
        /\ (pc = "idle" /\ session # EmptyDict /\ RedirectedTo(ret', raised', "login")) =>
               session' = EmptyDict
        /\ (\/ DATA'.assessments # DATA.assessments
            \/ DATA'.peer_reports # DATA.peer_reports
            \/ DATA'.hr_actions # DATA.hr_actions) =>
               /\ session' = session
               /\ \E i \in 1..Len(DATA.employees) : LoggedInAs(session, DATA.employees[i])
        /\ DATA'.hr_actions # DATA.hr_actions =>
               /\ session.is_hr
               /\ employees_get(session.emp_id).is_hr
        /\ (pc = "idle" /\ pc' # "idle" /\ session = EmptyDict) =>
               /\ DATA'.assessments = DATA.assessments
               /\ DATA'.peer_reports = DATA.peer_reports
               /\ DATA'.hr_actions = DATA.hr_actions
               /\ \/ RedirectedTo(ret', raised', "login") /\ session' = EmptyDict
                  \/ LoginFailed(ret', raised') /\ session' = EmptyDict
                  \/ session' # EmptyDict
        /\ (pc = "idle" /\ LoginFailed(ret', raised')) => session' = session ]_vars

\* the HR employee has recorded an action for a colleague after that
\* colleague, in a session of their own, stored a peer report
HrActionAfterPeerReport ==
    /\ pc = "responded"
    /\ RedirectedTo(ret, raised, "hr_employee_detail")
    /\ session # EmptyDict
    /\ session.emp_id = "E2"
    /\ "E1" \in DOMAIN DATA.hr_actions
    /\ \E i \in 1..Len(DATA.peer_reports) : DATA.peer_reports[i].reporter_id = "E1"


(***************************************************************************)
(* Requests handled at the same time, each by a thread of its own          *)
(* (app.run serves threaded).  A request is followed from the line at      *)
(* which its handler stores or scores; the lines of two requests           *)
(* interleave.                                                              *)
(***************************************************************************)
Requests == {"r1", "r2"}

\* the routes followed: POST /hr/action, POST /api/assessment/submit, and
\* a page that scores an employee
Routes == {"hr_action", "submit", "score"}

\* the store's collection a route writes
CollectionOf(route) == IF route = "hr_action" THEN "hr_actions" ELSE "assessments"

\* the record a request is about to store; its uuid is its own
record_of(r, route, emp_id) ==
    IF route = "hr_action"
    THEN [hr_action_record(emp_id, employees_get(emp_id), "counseling", "talk")
              EXCEPT !.id = r, !.hr_manager_id = "E2"]
    ELSE [assessment_record(emp_id, [q \in QIds |-> 3], EmptyDict) EXCEPT !.id = r]

InitThreads ==
    /\ AppStoreInit
    /\ requests = [r \in Requests |-> [pc |-> "waiting"]]
    /\ session = EmptyDict
    /\ now = 0
    /\ employee \in Employees
    /\ assessments = <<>>
    /\ work_logs = <<>>
    /\ messages = <<>>
    /\ ModuleInit
    /\ LocalsInit

ThreadFrame ==
    UNCHANGED <<session, now, employee, assessments, work_logs, messages, WEIGHTS,
                RISK_THRESHOLDS, pc, result, alerts, prev, arg, ret, raised>>

\* the request r moves to the line at, its locals changed as given
Goto(r, at, locals) ==
    requests' = [requests EXCEPT ![r] = [pc |-> at] @@ locals @@ @]

\* a request arrives and has passed the checks of its handler
BeginRequest ==
    /\ \E r \in Requests, route \in Routes, emp_id \in EmployeeIds :
           /\ requests[r].pc = "waiting"
           /\ requests' = [requests EXCEPT ![r] =
                  IF route = "score"
                  THEN [pc |-> "score", route |-> route, emp_id |-> emp_id]
                  ELSE [pc |-> "check", route |-> route, emp_id |-> emp_id,
                        record |-> record_of(r, route, emp_id)]]
    /\ UNCHANGED DATA
    /\ ThreadFrame

\* if emp_id not in DATA[collection]:
CheckList ==
    /\ \E r \in Requests :
           /\ requests[r].pc = "check"
           /\ Goto(r, IF requests[r].emp_id \in DOMAIN DATA[CollectionOf(requests[r].route)]
                      THEN "append" ELSE "create", EmptyDict)
    /\ UNCHANGED DATA
    /\ ThreadFrame

\* DATA[collection][emp_id] = []
CreateList ==
    /\ \E r \in Requests :
           /\ requests[r].pc = "create"
           /\ DATA' = [DATA EXCEPT ![CollectionOf(requests[r].route)] =
                          [e \in {requests[r].emp_id} |-> <<>>] @@ @]
           /\ Goto(r, "append", EmptyDict)
    /\ ThreadFrame

\* DATA[collection][emp_id].append(record); hr_action then reports success,
\* api_submit_assessment goes on to get_employee_burnout
AppendRecord ==
    /\ \E r \in Requests :
           /\ requests[r].pc = "append"
           /\ DATA' = [DATA EXCEPT ![CollectionOf(requests[r].route)][requests[r].emp_id] =
                          Append(@, requests[r].record)]
           /\ Goto(r, IF requests[r].route = "hr_action" THEN "done" ELSE "score", EmptyDict)
    /\ ThreadFrame

\* the result up to line 424, from the list as it is when assessments[-1]
\* is read; the unmeasured result is returned at once
locals_at_trend(emp_id, assmts) ==
    [burnout |-> compute_burnout_score(emp_id, assmts,
                                       Get(DATA.work_logs, emp_id, <<>>),
                                       Get(DATA.messages, emp_id, <<>>))]

\* get_employee_burnout up to the loop over the assessments (lines 95-424)
ScoreLatest ==
    /\ \E r \in Requests :
           /\ requests[r].pc = "score"
           /\ Goto(r, IF Get(DATA.assessments, requests[r].emp_id, <<>>) = <<>>
                      THEN "done" ELSE "trend",
                   locals_at_trend(requests[r].emp_id,
                                   Get(DATA.assessments, requests[r].emp_id, <<>>)))
    /\ UNCHANGED DATA
    /\ ThreadFrame

\* the loop over the list get_employee_burnout passed, which is the list of
\* the store itself (lines 427-433)
assessment_trend_of(assmts) ==
    [i \in 1..Len(assmts) |->
        [date |-> assmts[i].timestamp,
         score |-> compute_assessment_score(assmts[i].answers)]]

\* lines 427-450: the trend and the returned dict
ScoreTrend ==
    /\ \E r \in Requests :
           /\ requests[r].pc = "trend"
           /\ Goto(r, "done",
                   [burnout |-> [requests[r].burnout EXCEPT !.assessment_trend =
                                    assessment_trend_of(DATA.assessments[requests[r].emp_id])]])
    /\ UNCHANGED DATA
    /\ ThreadFrame

NextThreads ==
    BeginRequest \/ CheckList \/ CreateList \/ AppendRecord \/ ScoreLatest \/ ScoreTrend

SpecThreads == InitThreads /\ [][NextThreads]_vars

\* C22: every request that recorded an HR action or submitted an assessment
\* and has reported success finds its record in the list of its employee,
\* also when two requests for an employee without a list run at the same
\* time.
NoAcceptedWriteLost ==
    \A r \in Requests :
        (requests[r].pc = "done" /\ requests[r].route \in {"hr_action", "submit"}) =>
            \E i \in 1..Len(Get(DATA[CollectionOf(requests[r].route)],
                                requests[r].emp_id, <<>>)) :
                DATA[CollectionOf(requests[r].route)][requests[r].emp_id][i]
                    = requests[r].record

\* C21: a result of a scoring call on a non-empty assessment list has the
\* date of its last trend entry as last_assessment_date and the score of
\* that entry as the assessment score of its breakdown, also when another
\* request appends an assessment for the same employee during the call.
ScoredOnSnapshot ==
    \A r \in Requests :
        (requests[r].pc = "done" /\ "burnout" \in DOMAIN requests[r]) =>
            LET burnout == requests[r].burnout
                trend == burnout.assessment_trend
            IN  trend # <<>> =>
                    /\ burnout.last_assessment_date = trend[Len(trend)].date
                    /\ burnout.breakdown.assessment.score = trend[Len(trend)].score

=============================================================================
